---- MODULE Spec2Model ----
(***************************************************************************)
(* A model of the EnerGov scraper: the batch ProgressTracker and its       *)
(* progress file, the scrape_batch loop, the attachment acquisition        *)
(* (fast_download, api_server.download_attachments,                        *)
(* download_plan_attachments), and EnerGovScraper's attachment discovery   *)
(* and per-attachment download.                                            *)
(***************************************************************************)
EXTENDS Integers, Sequences, FiniteSets, TLC

(***************************************************************************)
(* Bounds of the model.                                                    *)
(***************************************************************************)
MaxLen == 3
MaxBatch == 5
MaxRuns == 2
MaxAtt == 2
MaxAcqRuns == 2
MaxApi == 2
MaxDom == 2
MaxSide == 1
MaxDl == 2
MaxDlRuns == 2
MaxResults == 2
MaxDocs == 2
MaxJobs == 2
MaxCases == 2

\* Case identifiers handed to the tracker and to scrape_batch.
Ids == {"x", "y", "z", "u", "v", "w"}
\* The identifiers are interchangeable for scrape_batch, so the lists of
\* distinct identifiers it is given are the prefixes of this one.
Canon == <<"x", "y", "z", "u", "v", "w">>
\* The identifiers the direct tracker calls draw from.
TrackIds == {"x", "y", "z"}
\* Error texts (str(e)) of a failed scrape.
Errors == {"e1", "e2"}

VARIABLES
    \* ---- ProgressTracker and the process that owns it ----
    data,       \* tracker.data: pending, completed, failed, last_updated
    file,       \* the progress file on disk: [exists, content]
    pc,         \* position of the process
    loadError,  \* the last ProgressTracker() raised in _load
    snap,       \* in-memory data at the moment of a crash between two calls
    \* ---- scrape_batch ----
    plan_identifiers, \* the list the loop iterates when it is its own object
    aliased,    \* the loop's list is the very object tracker.data["pending"]
    input,      \* the list the caller passed
    resume,     \* the resume flag of the running scrape_batch
    it,         \* position of the list iterator of the for loop
    identifier, \* the loop variable
    results,    \* the summary dictionary
    attempts,   \* the identifiers scrape_plan was called with, in call order
    sleeps,     \* the values of i after which asyncio.sleep(delay) ran
    runs,       \* number of scrape_batch calls started
    \* ---- one acquisition: fast_download, download_attachments (API
    \* server), download_plan_attachments ----
    fs,         \* the output root: <<dir>> for a folder, <<dir, name>> for a file
    remote,     \* the attachment list the portal serves for the case
    apc,        \* position of the acquisition
    variant,    \* which of the three functions runs
    case_id,    \* its case_id argument
    plan_dir,   \* the folder it writes to
    plan_number, \* the plan number found, <<>> for None
    unique_pdfs, \* the deduplicated PDF attachments
    tasks,      \* results of the download_direct tasks, "todo" until run
    idx,        \* position of the sequential click loop
    downloaded, \* the downloaded counter
    fetches,    \* download fetches of this run, by kind
    outcome,    \* how the run ended
    resolved,   \* what the plan-number step did in this run
    arun,       \* number of acquisitions started
    prev,       \* the previous acquisition: case, variant, success, files
    waits,      \* indices of the attachments whose download event is awaited
    \* ---- EnerGovScraper.get_attachments ----
    dpc,        \* position of get_attachments
    api,        \* what the attachments endpoint answered
    dom,        \* what the rendered page held when the DOM was read
    found,      \* the list get_attachments returns
    ran,        \* the discovery tiers that ran, in order
    \* ---- EnerGovScraper.download_all_attachments ----
    pdfs,       \* the files under pdf_dir: path -> content
    dl_atts,    \* the attachments argument
    spc,        \* position of the download loop
    att_i,      \* index of the attachment being downloaded
    tried,      \* strategies that made a call for this attachment, in order
    ret,        \* what the last download_attachment returned, <<>> for None
    paths,      \* the downloaded list
    srun,       \* number of download_all_attachments calls started
    \* ---- resolution of a plan number to a case key ----
    rpc,          \* position of the resolution
    resolver,     \* the function resolving: "client" or "scraper"
    plan_query,   \* the plan number asked for
    search_items, \* the result list the answer was taken from
    case_key,     \* the case key returned, "" for None
    \* ---- analyzer.analyze, steps 4 and 5 ----
    zpc,              \* position of analyze
    downloaded_files, \* result.downloaded_files, with what opening each gives
    file_i,           \* index of the file step 4 is at
    extracted_data,   \* result.extracted_data
    summary,          \* result.summary: key -> value
    \* ---- api_server: the job registry and the background tasks ----
    jobs,        \* jobs: job id -> job record
    batch_tasks, \* process_batch tasks: job id -> local state at its await
    \* ---- fast_download: the probe and the gathered direct downloads ----
    fpc,         \* position of the direct-URL phase
    fan,         \* unique_pdfs as the phase sees it: has a URL, file exists
    probed,      \* what the probe of the first URL gave
    sem,         \* the value of the semaphore
    entered,     \* number of bounded_download tasks that got past the semaphore
    flight,      \* the tasks inside download_direct's fetch
    \* ---- the response observer of a page load ----
    ofn,         \* the function that loads the page
    opos,        \* the statement it is at, 0 before it starts
    observer,    \* handle_response is registered on the page
    loading,     \* page.goto is waiting for the network to idle
    navigated,   \* the navigation has started
    emitted,     \* number of responses the page has emitted
    missed,      \* responses emitted while no observer was registered
    inflight,    \* handlers waiting for response.json()
    att_list,    \* the nonlocal attachments
    assigned,    \* the assignments to attachments, in the order they ran
    used,        \* the list the function went on with, and when it read it
    \* ---- the sanitization of a file name ----
    npc,         \* how often the name has been sanitized
    file_name,   \* the raw file name
    safe_name,   \* re.sub(...) of file_name
    safe_again,  \* re.sub(...) of safe_name
    \* ---- resumed batches ----
    persisted,   \* the progress state the resumed runs started from
    \* ---- api_server: download_attachments tasks on one event loop ----
    out_dirs,    \* the folders under OUTPUT_DIR
    dl_tasks     \* the running download_attachments calls, by task number

tvars == <<data, file, pc, loadError, snap>>
bvars == <<plan_identifiers, aliased, input, resume, it, identifier, results,
           attempts, sleeps, runs>>
avars == <<fs, remote, apc, variant, case_id, plan_dir, plan_number, unique_pdfs,
           tasks, idx, downloaded, fetches, outcome, resolved, arun, prev, waits>>
dvars == <<dpc, api, dom, found, ran>>
svars == <<pdfs, dl_atts, spc, att_i, tried, ret, paths, srun>>
rvars == <<rpc, resolver, plan_query, search_items, case_key>>
zvars == <<zpc, downloaded_files, file_i, extracted_data, summary>>
jvars == <<jobs, batch_tasks>>
fvars == <<fpc, fan, probed, sem, entered, flight>>
hvars == <<ofn, opos, observer, loading, navigated, emitted, missed, inflight,
           att_list, assigned, used>>
mvars == <<npc, file_name, safe_name, safe_again>>
pvars == <<persisted>>
cvars == <<out_dirs, dl_tasks>>
nvars == <<fvars, hvars, mvars, pvars, cvars>>
ovars == <<rvars, zvars, jvars, nvars>>
vars == <<tvars, bvars, avars, dvars, svars, ovars>>

\* What the steps of one part of the program leave alone.
OnlyTracker == UNCHANGED <<avars, dvars, svars, ovars>>
OnlyAcquisition == UNCHANGED <<tvars, bvars, dvars, svars, ovars>>
OnlyDiscovery == UNCHANGED <<tvars, bvars, avars, svars, ovars>>
OnlyDownload == UNCHANGED <<tvars, bvars, avars, dvars, ovars>>
OnlyResolve == UNCHANGED <<tvars, bvars, avars, dvars, svars, zvars, jvars, nvars>>
OnlyAnalyze == UNCHANGED <<tvars, bvars, avars, dvars, svars, rvars, jvars, nvars>>
OnlyJobs == UNCHANGED <<tvars, bvars, avars, dvars, svars, rvars, zvars, nvars>>
OnlyFan ==
    UNCHANGED <<tvars, bvars, avars, dvars, svars, rvars, zvars, jvars, hvars, mvars,
                pvars, cvars>>
OnlyObserve ==
    UNCHANGED <<tvars, bvars, avars, dvars, svars, rvars, zvars, jvars, fvars, mvars,
                pvars, cvars>>
OnlyNames ==
    UNCHANGED <<tvars, bvars, avars, dvars, svars, rvars, zvars, jvars, fvars, hvars,
                pvars, cvars>>
OnlyShared ==
    UNCHANGED <<tvars, bvars, avars, dvars, svars, rvars, zvars, jvars, fvars, hvars,
                mvars, pvars>>

(***************************************************************************)
(* Python list operations.                                                 *)
(***************************************************************************)
In(x, s) == \E i \in 1..Len(s) : s[i] = x

IndexOf(x, s) == CHOOSE i \in 1..Len(s) : s[i] = x /\ \A j \in 1..(i-1) : s[j] # x

\* list.remove(x): removes the first occurrence only.
Remove(s, x) ==
    LET k == IndexOf(x, s)
    IN  SubSeq(s, 1, k-1) \o SubSeq(s, k+1, Len(s))

Distinct(s) == \A i, j \in 1..Len(s) : i # j => s[i] # s[j]

ToSet(s) == {s[i] : i \in 1..Len(s)}

\* All lists over S of length at most n.
ListsUpTo(S, n) == UNION {[1..k -> S] : k \in 0..n}

(***************************************************************************)
(* ProgressTracker state.                                                  *)
(***************************************************************************)
EmptyData ==
    [completed |-> <<>>, failed |-> <<>>, pending |-> <<>>, last_updated |-> "null"]

NoFile == [exists |-> FALSE, content |-> <<>>]

\* json.dump(self.data, f, indent=2): the text written, token by token, in
\* the key order of the dictionary.
Serialize(d) ==
    <<"{", "completed", "[">> \o d.completed \o
    <<"]", "failed", "[">> \o d.failed \o
    <<"]", "pending", "[">> \o d.pending \o
    <<"]", "last_updated", d.last_updated, "}">>

Invalid == [invalid |-> TRUE]

\* Position of the first "]" at or after position from, 0 when there is none.
CloseAt(toks, from) ==
    IF \E i \in from..Len(toks) : toks[i] = "]"
    THEN CHOOSE i \in from..Len(toks) :
            toks[i] = "]" /\ \A j \in from..(i-1) : toks[j] # "]"
    ELSE 0

\* json.load(f): the dictionary the text denotes, or Invalid when the text
\* is not a complete JSON document (json.load raises JSONDecodeError).
Parse(toks) ==
    IF Len(toks) < 3 \/ SubSeq(toks, 1, 3) # <<"{", "completed", "[">>
    THEN Invalid
    ELSE LET c == CloseAt(toks, 4) IN
    IF c = 0 \/ Len(toks) < c + 2 \/ SubSeq(toks, c+1, c+2) # <<"failed", "[">>
    THEN Invalid
    ELSE LET f == CloseAt(toks, c+3) IN
    IF f = 0 \/ Len(toks) < f + 2 \/ SubSeq(toks, f+1, f+2) # <<"pending", "[">>
    THEN Invalid
    ELSE LET p == CloseAt(toks, f+3) IN
    IF p = 0 \/ Len(toks) # p + 3 \/ toks[p+1] # "last_updated" \/ toks[p+3] # "}"
    THEN Invalid
    ELSE [completed |-> SubSeq(toks, 4, c-1),
          failed |-> SubSeq(toks, c+3, f-1),
          pending |-> SubSeq(toks, f+3, p-1),
          last_updated |-> toks[p+2]]

\* ProgressTracker._load: the defaults when there is no file, else json.load.
Load(f) == IF f.exists THEN Parse(f.content) ELSE EmptyData

\* _save sets last_updated before it dumps.
Stamp(d) == [d EXCEPT !.last_updated = "ts"]

set_pending(d, plan_ids) == [d EXCEPT !.pending = plan_ids]

\* get_remaining returns the pending list itself.
get_remaining(d) == d.pending

mark_completed(d, plan_id) ==
    [d EXCEPT
        !.pending = IF In(plan_id, @) THEN Remove(@, plan_id) ELSE @,
        !.completed = IF ~In(plan_id, @) THEN Append(@, plan_id) ELSE @,
        !.failed = IF In(plan_id, @) THEN Remove(@, plan_id) ELSE @]

\* A mark_failed that leaves the identifier pending.
mark_failed_pending(d, plan_id, error) ==
    [d EXCEPT !.failed = IF ~In(plan_id, @) THEN Append(@, plan_id) ELSE @]

mark_failed(d, plan_id, error) ==
    [d EXCEPT
        !.pending = IF In(plan_id, @) THEN Remove(@, plan_id) ELSE @,
        !.failed = IF ~In(plan_id, @) THEN Append(@, plan_id) ELSE @]

reset(d) == EmptyData

(***************************************************************************)
(* File names, as the characters the code inspects.                        *)
(***************************************************************************)
NameA == <<"a", ".", "p", "d", "f">>
NameB == <<"b", "#", "1", ".", "P", "D", "F">>
NameZ == <<"Z", "2", "0", "2", "4", "0", "0", "0", "2", "0", "2", ".", "p", "d", "f">>
NameT == <<"n", ".", "t", "x", "t">>
MetaName == <<"_metadata.json">>

Digits == {"0", "1", "2", "3", "4", "5", "6", "7", "8", "9"}
UpperCase == {"P", "D", "F", "Z"}
LowerCase == {"a", "b", "c", "d", "e", "f", "h", "m", "n", "p", "t", "x", "z"}

\* str.lower(), character by character.
LowerChar(c) ==
    CASE c = "P" -> "p" [] c = "D" -> "d" [] c = "F" -> "f" [] c = "Z" -> "z"
      [] c = "U" -> "u"
      [] OTHER -> c

Lower(s) == [i \in 1..Len(s) |-> LowerChar(s[i])]

EndsWith(s, suffix) ==
    /\ Len(s) >= Len(suffix)
    /\ SubSeq(s, Len(s) - Len(suffix) + 1, Len(s)) = suffix

DotPdf == <<".", "p", "d", "f">>

\* a.get("FileName", "").lower().endswith(".pdf")
IsPdfName(s) == EndsWith(Lower(s), DotPdf)

\* The characters [^\w\-_\. ] leaves alone.
KeptChar(c) == c \in Digits \cup UpperCase \cup LowerCase \cup {"-", "_", ".", " "}

\* A sanitizer that marks every name it has treated.
SanitizeMarked(s) ==
    <<"_">> \o [i \in 1..Len(s) |-> IF KeptChar(s[i]) THEN s[i] ELSE "_"]

\* re.sub(r'[^\w\-_\. ]', '_', fn)
Sanitize(s) == [i \in 1..Len(s) |-> IF KeptChar(s[i]) THEN s[i] ELSE "_"]

\* Z\d{10} matches at position i.
PlanMatchAt(s, i) ==
    /\ i + 10 <= Len(s)
    /\ s[i] = "Z"
    /\ \A k \in 1..10 : s[i + k] \in Digits

\* re.search(r'Z\d{10}', fn): the first match, <<>> when there is none.
PlanNumberIn(s) ==
    IF \E i \in 1..Len(s) : PlanMatchAt(s, i)
    THEN LET i == CHOOSE i \in 1..Len(s) :
                    PlanMatchAt(s, i) /\ \A j \in 1..(i-1) : ~PlanMatchAt(s, j)
         IN  SubSeq(s, i, i + 10)
    ELSE <<>>

\* The plan number of the first attachment whose name holds one.
FirstPlanNumber(atts) ==
    IF \E k \in 1..Len(atts) : PlanNumberIn(atts[k].FileName) # <<>>
    THEN LET k == CHOOSE k \in 1..Len(atts) :
                    /\ PlanNumberIn(atts[k].FileName) # <<>>
                    /\ \A j \in 1..(k-1) : PlanNumberIn(atts[j].FileName) = <<>>
         IN  PlanNumberIn(atts[k].FileName)
    ELSE <<>>

\* [a for a in atts if keep(a)]
RECURSIVE OnlyPdfs(_)
OnlyPdfs(atts) ==
    IF atts = <<>> THEN <<>>
    ELSE IF IsPdfName(Head(atts).FileName)
         THEN <<Head(atts)>> \o OnlyPdfs(Tail(atts))
         ELSE OnlyPdfs(Tail(atts))

\* The seen-set loop: the first record of every file name, in order.
RECURSIVE DedupeFrom(_, _)
DedupeFrom(atts, seen) ==
    IF atts = <<>> THEN <<>>
    ELSE IF Head(atts).FileName \in seen
         THEN DedupeFrom(Tail(atts), seen)
         ELSE <<Head(atts)>> \o DedupeFrom(Tail(atts), seen \cup {Head(atts).FileName})

Dedupe(atts) == DedupeFrom(atts, {})

(***************************************************************************)
(* The acquisition at rest.                                                *)
(***************************************************************************)
NoFetches == [probe |-> 0, direct |-> 0, click |-> 0]

NoPrev == [ran |-> FALSE, case |-> <<>>, variant |-> "none", ok |-> FALSE, fs |-> {}]

AcqIdle ==
    /\ fs = {} /\ remote = <<>> /\ apc = "idle" /\ variant = "none"
    /\ case_id = <<>> /\ plan_dir = <<>> /\ plan_number = <<>>
    /\ unique_pdfs = <<>> /\ tasks = <<>> /\ idx = 0 /\ downloaded = 0
    /\ fetches = NoFetches /\ outcome = "none" /\ resolved = "none"
    /\ arun = 0 /\ prev = NoPrev /\ waits = {}

(***************************************************************************)
(* The scraper at rest.                                                    *)
(***************************************************************************)
NoApi == [raised |-> FALSE, status |-> 0, shape |-> "none", items |-> <<>>]

NoDom == [read |-> FALSE, links |-> <<>>, cards |-> <<>>,
          angular |-> [present |-> FALSE, container |-> FALSE, isArray |-> FALSE,
                       items |-> <<>>],
          leaves |-> <<>>]

NoFiles == [path \in {} |-> 0]

ScraperIdle ==
    /\ dpc = "idle" /\ api = NoApi /\ dom = NoDom /\ found = <<>> /\ ran = <<>>
    /\ pdfs = NoFiles /\ dl_atts = <<>> /\ spc = "idle" /\ att_i = 0 /\ tried = <<>>
    /\ ret = <<>> /\ paths = <<>> /\ srun = 0

(***************************************************************************)
(* The other parts of the program at rest.                                 *)
(***************************************************************************)
ResolveIdle ==
    /\ rpc = "idle" /\ resolver = "none" /\ plan_query = <<>>
    /\ search_items = <<>> /\ case_key = ""

NoData == [key \in {} |-> <<>>]

AnalyzeIdle ==
    /\ zpc = "idle" /\ downloaded_files = <<>> /\ file_i = 0
    /\ extracted_data = <<>> /\ summary = NoData

NoJobs == [job_id \in {} |-> 0]

JobsIdle == jobs = NoJobs /\ batch_tasks = NoJobs

FanIdle ==
    /\ fpc = "idle" /\ fan = <<>> /\ probed = "none" /\ sem = 0
    /\ entered = 0 /\ flight = {}

NotRead == [read |-> FALSE, list |-> <<>>, after |-> 0]

ObserveIdle ==
    /\ ofn = "none" /\ opos = 0 /\ observer = FALSE /\ loading = FALSE
    /\ navigated = FALSE /\ emitted = 0 /\ missed = 0 /\ inflight = {}
    /\ att_list = <<>> /\ assigned = <<>> /\ used = NotRead

NamesIdle ==
    npc = "idle" /\ file_name = <<>> /\ safe_name = <<>> /\ safe_again = <<>>

SharedIdle == out_dirs = {} /\ dl_tasks = <<>>

LaterIdle ==
    /\ ResolveIdle /\ AnalyzeIdle /\ JobsIdle /\ FanIdle /\ ObserveIdle
    /\ NamesIdle /\ SharedIdle

RestIdle == LaterIdle /\ persisted = EmptyData

(***************************************************************************)
(* The tracker driven call by call, with _save as the steps a crash can    *)
(* fall between: open(..., "w") truncates the file, json.dump writes the   *)
(* text, the with block closes it and the call returns.                    *)
(***************************************************************************)
BatchIdle ==
    /\ plan_identifiers = <<>> /\ aliased = FALSE /\ input = <<>>
    /\ resume = FALSE /\ it = 0 /\ identifier = "none"
    /\ results = [total |-> 0, completed |-> <<>>, failed |-> <<>>]
    /\ attempts = <<>> /\ sleeps = {} /\ runs = 0

InitTracker ==
    /\ data = EmptyData
    /\ file = NoFile
    /\ pc = "idle"
    /\ loadError = FALSE
    /\ snap = Invalid
    /\ BatchIdle
    /\ AcqIdle
    /\ ScraperIdle
    /\ RestIdle

\* A mutating call that returns without having called _save.
BeginSaveSkipped(d) ==
    /\ data' = Stamp(d)
    /\ pc' = "idle"
    /\ snap' = Invalid
    /\ UNCHANGED <<file, loadError, bvars>>

\* The mutation of a call followed by the start of _save.
BeginSave(d) ==
    /\ data' = Stamp(d)
    /\ file' = [exists |-> TRUE, content |-> <<>>]
    /\ pc' = "saving"
    /\ snap' = Invalid
    /\ UNCHANGED <<loadError, bvars>>

SetPending(plan_ids) ==
    /\ pc = "idle"
    /\ BeginSave(set_pending(data, plan_ids))

MarkCompleted(plan_id) ==
    /\ pc = "idle"
    /\ BeginSave(mark_completed(data, plan_id))

MarkFailed(plan_id, error) ==
    /\ pc = "idle"
    /\ BeginSave(mark_failed(data, plan_id, error))

Reset ==
    /\ pc = "idle"
    /\ BeginSave(reset(data))

\* json.dump writes the next piece of the text.
SaveWrite ==
    /\ pc = "saving"
    /\ Len(file.content) < Len(Serialize(data))
    /\ file' = [file EXCEPT
                    !.content = Append(@, Serialize(data)[Len(@) + 1])]
    /\ UNCHANGED <<data, pc, loadError, snap, bvars>>

\* The file is closed and the mutating call returns.
SaveClose ==
    /\ pc = "saving"
    /\ Len(file.content) = Len(Serialize(data))
    /\ pc' = "idle"
    /\ UNCHANGED <<data, file, loadError, snap, bvars>>

\* The process dies: memory is lost, the file stays as it is.
Crash ==
    /\ pc \in {"idle", "saving"}
    /\ snap' = IF pc = "idle" THEN data ELSE Invalid
    /\ data' = EmptyData
    /\ pc' = "down"
    /\ UNCHANGED <<file, loadError, bvars>>

\* A new process constructs ProgressTracker on the same file.
Restart ==
    /\ pc = "down"
    /\ ~loadError
    /\ IF Load(file) = Invalid
       THEN /\ loadError' = TRUE
            /\ UNCHANGED <<data, pc>>
       ELSE /\ data' = Load(file)
            /\ pc' = "idle"
            /\ UNCHANGED loadError
    /\ UNCHANGED <<file, snap, bvars>>

NextTracker ==
    \/ \E plan_ids \in ListsUpTo(TrackIds, MaxLen) : SetPending(plan_ids) /\ OnlyTracker
    \/ \E plan_id \in TrackIds : MarkCompleted(plan_id) /\ OnlyTracker
    \/ \E plan_id \in TrackIds, error \in Errors :
          MarkFailed(plan_id, error) /\ OnlyTracker
    \/ Reset /\ OnlyTracker
    \/ SaveWrite /\ OnlyTracker
    \/ SaveClose /\ OnlyTracker
    \/ Crash /\ OnlyTracker
    \/ Restart /\ OnlyTracker

SpecTracker == InitTracker /\ [][NextTracker]_vars

(***************************************************************************)
(* scrape_batch.  Inside the loop every tracker call runs to its return,   *)
(* _save included.                                                         *)
(***************************************************************************)
Saved(d) == [exists |-> TRUE, content |-> Serialize(d)]

\* The list object the for loop iterates: set_pending stores the caller's
\* list itself under data["pending"], and with resume the loop is handed
\* the list get_remaining returns, so the tracker's remove() calls act on
\* the list being iterated.
LoopList == IF aliased THEN data.pending ELSE plan_identifiers

\* The lists of distinct identifiers scrape_batch is called with.
BatchInputs == {SubSeq(Canon, 1, k) : k \in 0..MaxBatch}

InitBatch ==
    /\ data = EmptyData
    /\ file = NoFile
    /\ pc = "down"
    /\ loadError = FALSE
    /\ snap = Invalid
    /\ BatchIdle
    /\ AcqIdle
    /\ ScraperIdle
    /\ RestIdle

\* scrape_batch up to the for loop: the tracker is constructed on the
\* progress file, then resume decides which list is iterated.
BatchStart(plan_ids, res) ==
    /\ pc \in {"down", "done"}
    /\ runs < MaxRuns
    /\ Load(file) # Invalid
    /\ LET loaded == Load(file)
           remaining == get_remaining(loaded)
       IN  /\ IF res
              THEN /\ data' = loaded
                   /\ aliased' = (remaining # <<>>)
                   /\ plan_identifiers' = IF remaining # <<>> THEN <<>> ELSE plan_ids
                   /\ results' = [total |-> IF remaining # <<>> THEN Len(remaining)
                                                           ELSE Len(plan_ids),
                                  completed |-> <<>>, failed |-> <<>>]
                   /\ UNCHANGED file
              ELSE /\ data' = Stamp(set_pending(loaded, plan_ids))
                   /\ file' = Saved(data')
                   /\ aliased' = TRUE
                   /\ plan_identifiers' = <<>>
                   /\ results' = [total |-> Len(plan_ids),
                                  completed |-> <<>>, failed |-> <<>>]
    /\ input' = plan_ids
    /\ resume' = res
    /\ it' = 0
    /\ identifier' = "none"
    /\ attempts' = <<>>
    /\ sleeps' = {}
    /\ runs' = runs + 1
    /\ pc' = "loop"
    /\ UNCHANGED <<loadError, snap>>

\* The for statement asks the list iterator for the next element.
ForNext ==
    /\ pc = "loop"
    /\ IF it < Len(LoopList)
       THEN /\ identifier' = LoopList[it + 1]
            /\ it' = it + 1
            /\ attempts' = Append(attempts, LoopList[it + 1])
            /\ pc' = "scraping"
       ELSE /\ pc' = "done"
            /\ UNCHANGED <<identifier, it, attempts>>
    /\ UNCHANGED <<data, file, loadError, snap, plan_identifiers, aliased,
                   input, resume, results, sleeps, runs>>

\* scrape_plan returned: tracker.mark_completed, results["completed"].
ScrapeReturns ==
    /\ pc = "scraping"
    /\ data' = Stamp(mark_completed(data, identifier))
    /\ file' = Saved(data')
    /\ results' = [results EXCEPT !.completed = Append(@, identifier)]
    /\ pc' = "rate"
    /\ UNCHANGED <<loadError, snap, plan_identifiers, aliased, input, resume,
                   it, identifier, attempts, sleeps, runs>>

\* scrape_plan raised: tracker.mark_failed, results["failed"].
ScrapeRaises(error_msg) ==
    /\ pc = "scraping"
    /\ data' = Stamp(mark_failed(data, identifier, error_msg))
    /\ file' = Saved(data')
    /\ results' = [results EXCEPT
                     !.failed = Append(@, [id |-> identifier, error |-> error_msg])]
    /\ pc' = "rate"
    /\ UNCHANGED <<loadError, snap, plan_identifiers, aliased, input, resume,
                   it, identifier, attempts, sleeps, runs>>

\* A loop that sleeps after every case.
SleepsAlways(i, n) == TRUE

\* if i < len(plan_identifiers) - 1:
MoreToScrape(i, n) == i < n - 1

\* if i < len(plan_identifiers) - 1: await asyncio.sleep(delay)
RateLimit ==
    /\ pc = "rate"
    /\ sleeps' = IF MoreToScrape(it - 1, Len(LoopList))
                 THEN sleeps \cup {it - 1} ELSE sleeps
    /\ pc' = "loop"
    /\ UNCHANGED <<data, file, loadError, snap, plan_identifiers, aliased,
                   input, resume, it, identifier, results, attempts, runs>>

\* The process dies inside the loop; what the tracker saved stays on disk.
BatchCrash ==
    /\ pc \in {"loop", "scraping", "rate"}
    /\ pc' = "down"
    /\ data' = EmptyData
    /\ UNCHANGED <<file, loadError, snap, bvars>>

NextBatch ==
    \/ \E plan_ids \in BatchInputs, res \in BOOLEAN :
          /\ runs = 0
          /\ BatchStart(plan_ids, res)
          /\ OnlyTracker
    \/ \E res \in BOOLEAN :
          /\ runs > 0
          /\ BatchStart(IF res THEN <<>> ELSE input, res)
          /\ OnlyTracker
    \/ ForNext /\ OnlyTracker
    \/ ScrapeReturns /\ OnlyTracker
    \/ \E error_msg \in Errors : ScrapeRaises(error_msg) /\ OnlyTracker
    \/ RateLimit /\ OnlyTracker
    \/ BatchCrash /\ OnlyTracker

SpecBatch == InitBatch /\ [][NextBatch]_vars

(***************************************************************************)
(* Claims about the ProgressTracker and scrape_batch.                      *)
(***************************************************************************)
Disjoint(s, t) == ToSet(s) \cap ToSet(t) = {}

\* C1: after any sequence of set_pending, mark_completed, mark_failed and
\* reset calls from the empty state, pending, completed and failed are
\* pairwise disjoint.
C1_PairwiseDisjoint ==
    pc = "idle" =>
        /\ Disjoint(data.pending, data.completed)
        /\ Disjoint(data.pending, data.failed)
        /\ Disjoint(data.completed, data.failed)

SameLists(d, e) ==
    /\ d.pending = e.pending
    /\ d.completed = e.completed
    /\ d.failed = e.failed

\* C2: a crash after mutating calls that have each returned, followed by a
\* new ProgressTracker on the same file, yields the pending, completed and
\* failed lists the memory held after the last returned call.
C2_RestartRestoresState ==
    (pc = "idle" /\ snap # Invalid) => SameLists(data, snap)

\* The restart after pending=[x,y,z], mark_completed(x) and a crash:
\* get_remaining() is [y,z] and completed contains x.
C2_Witness ==
    /\ pc = "idle"
    /\ snap # Invalid
    /\ get_remaining(snap) = <<"y", "z">>
    /\ get_remaining(data) = <<"y", "z">>
    /\ In("x", data.completed)

\* C3: at every instant, a crash in the middle of _save included, the
\* progress file holds a complete state, never empty or partly written
\* content, so a restarted ProgressTracker can always load it.
C3_FileAlwaysComplete ==
    /\ file.exists => Parse(file.content) # Invalid
    /\ ~loadError

FailedIds(r) == {r.failed[k].id : k \in 1..Len(r.failed)}

\* C4: scrape_batch without resume on n distinct identifiers attempts each
\* exactly once in input order, and returns with
\* len(completed) + len(failed) = n = total.
C4_EveryIdentifierAttempted ==
    (pc = "done" /\ ~resume) =>
        /\ attempts = input
        /\ Len(results.completed) + Len(results.failed) = Len(input)
        /\ results.total = Len(input)

\* C5: an identifier whose scrape_plan raises is recorded with its error
\* under failed, in the tracker and in the summary, and every identifier
\* after it is still scraped; of 5 identifiers of which only the third
\* raises, 4 are completed and failed holds exactly the third.
C5_FailureDoesNotStopBatch ==
    (pc = "done" /\ ~resume) =>
        /\ \A k \in 1..Len(input) :
              input[k] \in FailedIds(results) =>
                  /\ In(input[k], data.failed)
                  /\ \A j \in (k+1)..Len(input) : In(input[j], attempts)
        /\ (Len(input) = 5 /\ FailedIds(results) = {input[3]}) =>
              Len(results.completed) = 4

(***************************************************************************)
(* One acquisition of a case: fast_download ("fast"), the API server's     *)
(* download_attachments ("api") and download_plan_attachments ("cli").     *)
(* The same function is run again, on the same or on another case.         *)
(***************************************************************************)
MinBody == 100

CaseIds == {<<"c", "1">>, <<"c", "2">>}

Att(fn, url) == [FileName |-> fn, ThumbnailUrl |-> url]

\* The attachment records the portal serves.
RemoteAtts ==
    {Att(NameA, "u"), Att(NameZ, "u"), Att(NameB, ""), Att(NameT, "u")}

\* Page titles: none, the portal's generic ones, a plan number.
CivicAccess == <<"Civic Access">>
SelfServiceSite == <<"SelfService Public Site">>
GenericTitles == {CivicAccess, SelfServiceSite}
Titles == {<<>>, CivicAccess, SubSeq(NameZ, 1, 11)}

\* What a fetch of a direct URL can give.
Responses ==
    {[raised |-> TRUE, status |-> 0, size |-> 0],
     [raised |-> FALSE, status |-> 403, size |-> 101],
     [raised |-> FALSE, status |-> 200, size |-> 100],
     [raised |-> FALSE, status |-> 200, size |-> 101]}

DirExists(d) == <<d>> \in fs

\* Path.rename(new) of a folder: every path under old moves under new.
RenameDir(files, old, new) ==
    {IF path[1] = old THEN [path EXCEPT ![1] = new] ELSE path : path \in files}

\* A rename that does not look whether the destination exists.
MayRenameUnchecked(new_dir, dir) == new_dir # dir

\* if new_dir != plan_dir and not new_dir.exists():
MayRename(new_dir, dir) == new_dir # dir /\ ~DirExists(new_dir)

LocalPath(att) == <<plan_dir, Sanitize(att.FileName)>>

InitAcq ==
    /\ data = EmptyData /\ file = NoFile /\ pc = "down"
    /\ loadError = FALSE /\ snap = Invalid
    /\ BatchIdle
    /\ fs = {}
    /\ remote \in ListsUpTo(RemoteAtts, MaxAtt)
    /\ apc = "idle" /\ variant = "none"
    /\ case_id = <<>> /\ plan_dir = <<>> /\ plan_number = <<>>
    /\ unique_pdfs = <<>> /\ tasks = <<>> /\ idx = 0 /\ downloaded = 0
    /\ fetches = NoFetches /\ outcome = "none" /\ resolved = "none"
    /\ arun = 0 /\ prev = NoPrev /\ waits = {}
    /\ ScraperIdle
    /\ RestIdle

\* plan_dir = output_dir / case_id; plan_dir.mkdir(parents=True, exist_ok=True)
AcqStart(v, c) ==
    /\ apc \in {"idle", "done"}
    /\ arun < MaxAcqRuns
    /\ prev' = IF arun = 0 THEN NoPrev
               ELSE [ran |-> TRUE, case |-> case_id, variant |-> variant,
                     ok |-> (outcome = "ok" /\ downloaded = Len(unique_pdfs)),
                     fs |-> fs]
    /\ fs' = fs \cup {<<c>>}
    /\ variant' = v
    /\ case_id' = c
    /\ plan_dir' = c
    /\ plan_number' = <<>>
    /\ unique_pdfs' = <<>>
    /\ tasks' = <<>>
    /\ idx' = 0
    /\ downloaded' = 0
    /\ fetches' = NoFetches
    /\ outcome' = "none"
    /\ resolved' = "none"
    /\ arun' = arun + 1
    /\ apc' = "nav"
    /\ waits' = {}
    /\ UNCHANGED remote

\* page.goto returned; handle_response has stored the list of a matching
\* response, or there was none; PDFs are filtered and deduplicated, and the
\* plan number is looked for in the file names.
Navigate(captured) ==
    /\ apc = "nav"
    /\ variant \in {"fast", "api"}
    /\ LET attachments == IF captured THEN remote ELSE <<>>
           unique == Dedupe(OnlyPdfs(attachments))
       IN  IF unique = <<>>
           THEN /\ apc' = "done"
                /\ outcome' = "error"
                /\ UNCHANGED <<unique_pdfs, plan_number>>
           ELSE /\ unique_pdfs' = unique
                /\ plan_number' = FirstPlanNumber(unique)
                /\ apc' = "resolve"
                /\ UNCHANGED outcome
    /\ UNCHANGED <<fs, remote, variant, case_id, plan_dir, tasks, idx, downloaded,
                   fetches, resolved, arun, prev, waits>>

\* page.goto raised: fast_download and download_attachments let it out,
\* download_plan_attachments returns [].
NavigateRaises ==
    /\ apc = "nav"
    /\ apc' = "done"
    /\ outcome' = IF variant = "cli" THEN "empty" ELSE "raised"
    /\ UNCHANGED <<fs, remote, variant, case_id, plan_dir, plan_number, unique_pdfs,
                   tasks, idx, downloaded, fetches, resolved, arun, prev, waits>>

\* download_plan_attachments takes the plan number from the page title.
NavigateCli(title) ==
    /\ apc = "nav"
    /\ variant = "cli"
    /\ plan_number' = IF title # <<>> /\ title \notin GenericTitles THEN title ELSE <<>>
    /\ apc' = "resolve"
    /\ UNCHANGED <<fs, remote, variant, case_id, plan_dir, unique_pdfs, tasks, idx,
                   downloaded, fetches, outcome, resolved, arun, prev, waits>>

\* The plan number is known or not: the case folder takes its name when no
\* folder of that name exists.
Resolve ==
    /\ apc = "resolve"
    /\ IF plan_number # <<>> /\ MayRename(plan_number, plan_dir)
       THEN /\ fs' = RenameDir(fs, plan_dir, plan_number)
            /\ plan_dir' = plan_number
            /\ resolved' = "renamed"
       ELSE /\ resolved' = IF plan_number = <<>> THEN "noplan" ELSE "kept"
            /\ UNCHANGED <<fs, plan_dir>>
    /\ apc' = CASE variant = "fast" -> "probe"
                [] variant = "api" -> "click"
                [] OTHER -> "extract"
    /\ idx' = 1
    /\ UNCHANGED <<remote, variant, case_id, plan_number, unique_pdfs, tasks,
                   downloaded, fetches, outcome, arun, prev, waits>>

\* download_plan_attachments reads the anchors of the rendered page: the
\* texts ending in .pdf, each once.
ExtractCli(rendered) ==
    /\ apc = "extract"
    /\ LET files == Dedupe(OnlyPdfs(IF rendered THEN remote ELSE <<>>))
       IN  IF files = <<>>
           THEN /\ apc' = "done"
                /\ outcome' = "empty"
                /\ UNCHANGED unique_pdfs
           ELSE /\ unique_pdfs' = files
                /\ apc' = "click"
                /\ UNCHANGED outcome
    /\ UNCHANGED <<fs, remote, variant, case_id, plan_dir, plan_number, tasks, idx,
                   downloaded, fetches, resolved, arun, prev, waits>>

\* The first attachment has no ThumbnailUrl: downloaded = 0, no probe.
ProbeSkipped ==
    /\ apc = "probe"
    /\ unique_pdfs[1].ThumbnailUrl = ""
    /\ apc' = "click"
    /\ UNCHANGED <<fs, remote, variant, case_id, plan_dir, plan_number, unique_pdfs,
                   tasks, idx, downloaded, fetches, outcome, resolved, arun, prev, waits>>

\* test_page.goto(thumb_url): the probe of the first attachment's URL.
Probe(resp) ==
    /\ apc = "probe"
    /\ unique_pdfs[1].ThumbnailUrl # ""
    /\ fetches' = [fetches EXCEPT !.probe = @ + 1]
    /\ IF ~resp.raised /\ resp.status = 200
       THEN /\ apc' = "direct"
            /\ tasks' = [i \in 1..Len(unique_pdfs) |-> "todo"]
       ELSE /\ apc' = "click"
            /\ UNCHANGED tasks
    /\ UNCHANGED <<fs, remote, variant, case_id, plan_dir, plan_number, unique_pdfs,
                   idx, downloaded, outcome, resolved, arun, prev, waits>>

\* download_direct(att, idx), one of the gathered tasks.
DirectTask(i, resp) ==
    /\ apc = "direct"
    /\ i \in 1..Len(tasks)
    /\ tasks[i] = "todo"
    /\ LET att == unique_pdfs[i]
           local_path == LocalPath(att)
       IN  IF local_path \in fs
           THEN /\ tasks' = [tasks EXCEPT ![i] = "true"]
                /\ UNCHANGED <<fs, fetches>>
           ELSE IF att.ThumbnailUrl = ""
           THEN /\ tasks' = [tasks EXCEPT ![i] = "false"]
                /\ UNCHANGED <<fs, fetches>>
           ELSE /\ fetches' = [fetches EXCEPT !.direct = @ + 1]
                /\ IF ~resp.raised /\ resp.status = 200 /\ resp.size > MinBody
                   THEN /\ fs' = fs \cup {local_path}
                        /\ tasks' = [tasks EXCEPT ![i] = "true"]
                   ELSE /\ tasks' = [tasks EXCEPT ![i] = "false"]
                        /\ UNCHANGED fs
    /\ UNCHANGED <<remote, apc, variant, case_id, plan_dir, plan_number, unique_pdfs,
                   idx, downloaded, outcome, resolved, arun, prev, waits>>

\* gather returned: downloaded = sum(1 for r in results if r); the click
\* loop follows when it is 0.
DirectDone ==
    /\ apc = "direct"
    /\ \A i \in 1..Len(tasks) : tasks[i] # "todo"
    /\ downloaded' = Cardinality({i \in 1..Len(tasks) : tasks[i] = "true"})
    /\ apc' = IF downloaded' = 0 THEN "click" ELSE "meta"
    /\ UNCHANGED <<fs, remote, variant, case_id, plan_dir, plan_number, unique_pdfs,
                   tasks, idx, fetches, outcome, resolved, arun, prev, waits>>

\* A loop that starts the next round whatever it is waiting for.
LoopNeverWaits(waiting) == TRUE

\* The loop body awaits the download before the next round starts.
LoopAtHead(waiting) == waiting = {}

\* One round of the click-to-download loop up to its await: a file that
\* exists is counted, else the link is clicked inside expect_download.
ClickBegin ==
    /\ apc = "click"
    /\ idx <= Len(unique_pdfs)
    /\ LoopAtHead(waits)
    /\ IF LocalPath(unique_pdfs[idx]) \in fs
       THEN /\ downloaded' = downloaded + 1
            /\ UNCHANGED <<fetches, waits>>
       ELSE /\ fetches' = [fetches EXCEPT !.click = @ + 1]
            /\ waits' = waits \cup {idx}
            /\ UNCHANGED downloaded
    /\ idx' = idx + 1
    /\ UNCHANGED <<fs, remote, apc, variant, case_id, plan_dir, plan_number,
                   unique_pdfs, tasks, outcome, resolved, arun, prev>>

\* The wait is over: the download is saved, or the round's except branch
\* runs (timeout, exception).
ClickEnd(i, ok) ==
    /\ apc = "click"
    /\ i \in waits
    /\ waits' = waits \ {i}
    /\ IF ok
       THEN /\ fs' = fs \cup {LocalPath(unique_pdfs[i])}
            /\ downloaded' = downloaded + 1
       ELSE UNCHANGED <<fs, downloaded>>
    /\ UNCHANGED <<remote, apc, variant, case_id, plan_dir, plan_number, unique_pdfs,
                   tasks, idx, fetches, outcome, resolved, arun, prev>>

\* The loop is over.
ClickDone ==
    /\ apc = "click"
    /\ idx > Len(unique_pdfs)
    /\ waits = {}
    /\ apc' = "meta"
    /\ UNCHANGED <<fs, remote, variant, case_id, plan_dir, plan_number, unique_pdfs,
                   tasks, idx, downloaded, fetches, outcome, resolved, arun, prev,
                   waits>>

\* browser.close(), _metadata.json is written, the result is returned.
Finish ==
    /\ apc = "meta"
    /\ fs' = fs \cup {<<plan_dir, MetaName>>}
    /\ outcome' = "ok"
    /\ apc' = "done"
    /\ UNCHANGED <<remote, variant, case_id, plan_dir, plan_number, unique_pdfs,
                   tasks, idx, downloaded, fetches, resolved, arun, prev, waits>>

NextAcq ==
    \/ \E v \in {"fast", "api", "cli"}, c \in CaseIds :
          /\ arun = 0
          /\ AcqStart(v, c)
          /\ OnlyAcquisition
    \/ \E c \in CaseIds :
          /\ arun > 0
          /\ AcqStart(variant, c)
          /\ OnlyAcquisition
    \/ \E captured \in BOOLEAN : Navigate(captured) /\ OnlyAcquisition
    \/ NavigateRaises /\ OnlyAcquisition
    \/ \E title \in Titles : NavigateCli(title) /\ OnlyAcquisition
    \/ Resolve /\ OnlyAcquisition
    \/ \E rendered \in BOOLEAN : ExtractCli(rendered) /\ OnlyAcquisition
    \/ ProbeSkipped /\ OnlyAcquisition
    \/ \E resp \in Responses : Probe(resp) /\ OnlyAcquisition
    \/ \E i \in 1..MaxAtt, resp \in Responses : DirectTask(i, resp) /\ OnlyAcquisition
    \/ DirectDone /\ OnlyAcquisition
    \/ ClickBegin /\ OnlyAcquisition
    \/ \E i \in 1..MaxAtt, ok \in BOOLEAN : ClickEnd(i, ok) /\ OnlyAcquisition
    \/ ClickDone /\ OnlyAcquisition
    \/ Finish /\ OnlyAcquisition

SpecAcq == InitAcq /\ [][NextAcq]_vars

(***************************************************************************)
(* Claims about the acquisition.                                           *)
(***************************************************************************)
\* C6: a second acquisition of the same case, the remote list unchanged and
\* every download of the first run having succeeded, performs no download
\* fetch (probe, direct or click) and leaves the files on disk as the first
\* run left them.
C6_SecondRunFetchesNothing ==
    (/\ apc = "done"
     /\ variant \in {"fast", "api"}
     /\ outcome = "ok"
     /\ prev.ran /\ prev.ok
     /\ prev.case = case_id /\ prev.variant = variant)
    => (fetches = NoFetches /\ fs = prev.fs)

\* C7: when the plan number is known and its folder already exists, the
\* step that resolves it renames nothing and leaves the files as they are;
\* the case folder is renamed only to a name no folder has.
C7_RenameOnlyToFreshFolder ==
    [][apc = "resolve" =>
          /\ (plan_number # <<>> /\ DirExists(plan_number)) =>
                (fs' = fs /\ plan_dir' = plan_dir)
          /\ plan_dir' # plan_dir => ~DirExists(plan_dir')]_vars

\* The plan number was resolved while its folder existed beside the case
\* folder, and the case folder kept its name.
C7_Witness ==
    /\ resolved = "kept"
    /\ plan_number # case_id
    /\ plan_dir = case_id
    /\ DirExists(case_id)
    /\ DirExists(plan_number)

(***************************************************************************)
(* EnerGovScraper.get_attachments: the attachments endpoint first, then    *)
(* the DOM of the rendered page.                                           *)
(***************************************************************************)
NameH == <<"h", "t", "t", "p", ":", "a", ".", "p", "d", "f">>
HttpPrefix == <<"h", "t", "t", "p">>

StartsWith(s, prefix) ==
    /\ Len(s) >= Len(prefix)
    /\ SubSeq(s, 1, Len(prefix)) = prefix

Includes(s, sub) ==
    \E i \in 1..(Len(s) - Len(sub) + 1) : SubSeq(s, i, i + Len(sub) - 1) = sub

\* An element of the list the endpoint returns: a dictionary with the
\* keys FileName and AttachmentId (absent when empty), or a string.
ApiItem(kind, fn, id, url) ==
    [kind |-> kind, FileName |-> fn, AttachmentId |-> id, DownloadUrl |-> url]

ApiItems ==
    {ApiItem("dict", NameA, "i1", "http"),
     ApiItem("dict", NameB, "", ""),
     ApiItem("dict", <<>>, "", ""),
     ApiItem("str", NameA, "", "")}

\* Where the list sits in the JSON body: the shapes get_attachments reads
\* a list from, and two it reads nothing from.
GoodShapes ==
    {"list", "Result.Attachments", "Result.Attachments.Items", "Result", "Attachments"}
BadShapes == {"Result.Attachments.Other", "scalar"}

ApiOutcomes ==
    {[raised |-> TRUE, status |-> 0, shape |-> "none", items |-> <<>>],
     [raised |-> FALSE, status |-> 500, shape |-> "none", items |-> <<>>]}
    \cup {[raised |-> FALSE, status |-> 200, shape |-> sh, items |-> l] :
            sh \in GoodShapes, l \in ListsUpTo(ApiItems, MaxApi)}
    \cup {[raised |-> FALSE, status |-> 200, shape |-> sh, items |-> <<>>] :
            sh \in BadShapes}

\* An attachment record of the returned list, with the tier it came from.
Found(fn, id, url, tier) ==
    [FileName |-> fn, AttachmentId |-> id, DownloadUrl |-> url, tier |-> tier]

\* The list the body is read as.
ApiAttachments(a) == IF a.shape \in GoodShapes THEN a.items ELSE <<>>

\* The valid_attachments loop.
RECURSIVE ValidAttachments(_)
ValidAttachments(items) ==
    IF items = <<>> THEN <<>>
    ELSE LET att == Head(items)
             rest == ValidAttachments(Tail(items))
         IN  IF att.kind = "dict"
             THEN IF att.AttachmentId # "" \/ att.FileName # <<>>
                  THEN <<Found(att.FileName, att.AttachmentId, att.DownloadUrl, "api")>>
                       \o rest
                  ELSE rest
             ELSE IF att.kind = "str" /\ ~StartsWith(att.FileName, <<"{">>)
                  THEN <<Found(att.FileName, "", "", "api")>> \o rest
                  ELSE rest

\* if valid_attachments: return valid_attachments
ApiReturns(valid) == valid # <<>>

\* What the rendered page holds.
Link(text, href) == [text |-> text, href |-> href]
DomLinks == {Link(NameA, "http"), Link(NameH, "http")}

Card(pdfText, text) == [pdfText |-> pdfText, text |-> text, href |-> "http"]
DomCards == {Card(TRUE, NameA), Card(TRUE, NameT)}

ModelItem(fn) == [FileName |-> fn, AttachmentId |-> "m1", DownloadUrl |-> ""]
ModelItems == {ModelItem(NameA), ModelItem(NameZ)}

AngularStates ==
    {[present |-> FALSE, container |-> FALSE, isArray |-> FALSE, items |-> <<>>],
     [present |-> TRUE, container |-> FALSE, isArray |-> FALSE, items |-> <<>>],
     [present |-> TRUE, container |-> TRUE, isArray |-> FALSE, items |-> <<>>]}
    \cup {[present |-> TRUE, container |-> TRUE, isArray |-> TRUE, items |-> l] :
            l \in ListsUpTo(ModelItems, MaxSide)}

DomLeaves == {Link(NameA, "http"), Link(NameT, "")}

HasName(acc, fn) == \E i \in 1..Len(acc) : acc[i].FileName = fn

\* Method 1: the links whose href holds .pdf.
RECURSIVE Method1(_)
Method1(links) ==
    IF links = <<>> THEN <<>>
    ELSE LET link == Head(links)
         IN  IF link.text # <<>> /\ ~StartsWith(Lower(link.text), HttpPrefix)
             THEN <<Found(link.text, "", link.href, "anchor")>> \o Method1(Tail(links))
             ELSE Method1(Tail(links))

\* Method 2: the first link of every card that mentions a PDF.
RECURSIVE Method2(_, _)
Method2(cards, acc) ==
    IF cards = <<>> THEN acc
    ELSE LET card == Head(cards)
         IN  IF /\ card.pdfText
                /\ card.text # <<>>
                /\ Includes(Lower(card.text), DotPdf)
                /\ ~HasName(acc, card.text)
             THEN Method2(Tail(cards), Append(acc, Found(card.text, "", card.href, "card")))
             ELSE Method2(Tail(cards), acc)

RECURSIVE ModelRecords(_)
ModelRecords(items) ==
    IF items = <<>> THEN <<>>
    ELSE IF Head(items).FileName # <<>>
         THEN <<Found(Head(items).FileName, Head(items).AttachmentId,
                      Head(items).DownloadUrl, "model")>> \o ModelRecords(Tail(items))
         ELSE ModelRecords(Tail(items))

\* Method 3: the attachments of the AngularJS scope.
Method3(ang, acc) ==
    IF ang.present /\ ang.container /\ ang.isArray
    THEN acc \o ModelRecords(ang.items)
    ELSE acc

\* The leaf-text scan that runs whatever the other methods found.
LeafTierAlways(acc) == TRUE

\* Method 4: if (attachments.length === 0)
LeafTierRuns(acc) == Len(acc) = 0

RECURSIVE LeafRecords(_, _)
LeafRecords(leaves, acc) ==
    IF leaves = <<>> THEN acc
    ELSE LET leaf == Head(leaves)
         IN  IF EndsWith(Lower(leaf.text), DotPdf) /\ ~HasName(acc, leaf.text)
             THEN LeafRecords(Tail(leaves),
                              Append(acc, Found(leaf.text, "", leaf.href, "leaf")))
             ELSE LeafRecords(Tail(leaves), acc)

Method4(leaves, acc) == IF LeafTierRuns(acc) THEN LeafRecords(leaves, acc) ELSE acc

Merged(d) == Method3(d.angular, Method2(d.cards, Method1(d.links)))

\* The script of _extract_attachments_from_dom.
JsData(d) == Method4(d.leaves, Merged(d))

\* The methods of the script that ran.
JsRan(d) ==
    <<"anchor", "card">>
    \o (IF d.angular.present THEN <<"model">> ELSE <<>>)
    \o (IF LeafTierRuns(Merged(d)) THEN <<"leaf">> ELSE <<>>)

DomStates ==
    {[read |-> TRUE, links |-> ls, cards |-> cs, angular |-> ang, leaves |-> lv] :
        ls \in ListsUpTo(DomLinks, MaxDom), cs \in ListsUpTo(DomCards, MaxSide),
        ang \in AngularStates, lv \in ListsUpTo(DomLeaves, MaxSide)}

InitDisc ==
    /\ data = EmptyData /\ file = NoFile /\ pc = "down"
    /\ loadError = FALSE /\ snap = Invalid
    /\ BatchIdle
    /\ AcqIdle
    /\ dpc = "api" /\ api = NoApi /\ dom = NoDom /\ found = <<>> /\ ran = <<>>
    /\ pdfs = NoFiles /\ dl_atts = <<>> /\ spc = "idle" /\ att_i = 0 /\ tried = <<>>
    /\ ret = <<>> /\ paths = <<>> /\ srun = 0
    /\ RestIdle

\* The request to the attachments endpoint and the reading of its body.
GetAttachmentsApi(a) ==
    /\ dpc = "api"
    /\ api' = a
    /\ ran' = <<"api">>
    /\ LET valid == IF a.raised \/ a.status # 200 THEN <<>>
                    ELSE ValidAttachments(ApiAttachments(a))
       IN  IF ApiReturns(valid)
           THEN /\ found' = valid
                /\ dpc' = "done"
           ELSE /\ found' = <<>>
                /\ dpc' = "dom"
    /\ UNCHANGED dom

\* _extract_attachments_from_dom: page.evaluate returned js_data.
ExtractFromDom(d) ==
    /\ dpc = "dom"
    /\ dom' = d
    /\ found' = JsData(d)
    /\ ran' = ran \o JsRan(d)
    /\ dpc' = "done"
    /\ UNCHANGED api

\* page.evaluate raised: the empty list is returned.
ExtractFromDomRaises ==
    /\ dpc = "dom"
    /\ found' = <<>>
    /\ dpc' = "done"
    /\ UNCHANGED <<api, dom, ran>>

NextDisc ==
    \/ dpc = "api" /\ \E a \in ApiOutcomes : GetAttachmentsApi(a) /\ OnlyDiscovery
    \/ dpc = "dom" /\ \E d \in DomStates : ExtractFromDom(d) /\ OnlyDiscovery
    \/ ExtractFromDomRaises /\ OnlyDiscovery

SpecDisc == InitDisc /\ [][NextDisc]_vars

(***************************************************************************)
(* Claims about discovery.                                                 *)
(***************************************************************************)
\* The spec's tiers: the endpoint, the anchors (links and cards), the
\* client-side model, the leaf texts.
Rank(tier) ==
    CASE tier = "api" -> 1
      [] tier \in {"anchor", "card"} -> 2
      [] tier = "model" -> 3
      [] OTHER -> 4

\* Number of records of the returned list that a tier produced.
Yield(tier) == Cardinality({i \in 1..Len(found) : found[i].tier = tier})

RanTier(tier) == In(tier, ran)

\* C9: the list discovery returns never holds two records of the same
\* fileName; the first occurrence in source order is the one kept, in
\* first-seen order.
C9_NoDuplicateFileNames ==
    dpc = "done" =>
        /\ \A i, j \in 1..Len(found) : i # j => found[i].FileName # found[j].FileName
        /\ Yield("api") > 0 => found = Dedupe(ValidAttachments(ApiAttachments(api)))

DlAtt(kind, fn, id, url) ==
    [kind |-> kind, FileName |-> fn, AttachmentId |-> id, DownloadUrl |-> url]

DlAtts ==
    {DlAtt("dict", NameA, <<"7">>, HttpPrefix),
     DlAtt("dict", NameB, <<>>, <<"/", "d">>),
     DlAtt("dict", <<>>, <<"8">>, <<>>),
     DlAtt("str", NameA, <<>>, <<>>)}

AttachmentPrefix == <<"a", "t", "t", "a", "c", "h", "m", "e", "n", "t", "_">>

\* attachment.get("FileName") or ... or f"attachment_{attachment_id}"
FileNameOf(att) ==
    IF att.FileName # <<>> THEN att.FileName ELSE AttachmentPrefix \o att.AttachmentId

\* file_path = self.pdf_dir / case_id / safe_name
FilePath(att) == Sanitize(FileNameOf(att))

\* A check that never finds the file.
NeverDownloaded(files, path) == FALSE

\* if file_path.exists():
AlreadyDownloaded(files, path) == path \in DOMAIN files

\* response.status_code == 200 and len(response.content) > 100
ResponseOk(resp) == ~resp.raised /\ resp.status = 200 /\ resp.size > MinBody

\* file_path.write_bytes(...) and download.save_as(file_path)
WriteFile(files, path, by) ==
    [q \in DOMAIN files \cup {path} |-> IF q = path THEN by ELSE files[q]]

Attachment == dl_atts[att_i]

\* A failed endpoint that sends the call back to the click.
BackToClick(step) == "click"

NextEndpoint(step) ==
    CASE step = "endpoint1" -> "endpoint2"
      [] step = "endpoint2" -> "endpoint3"
      [] OTHER -> "ret"

InitDl ==
    /\ data = EmptyData /\ file = NoFile /\ pc = "down"
    /\ loadError = FALSE /\ snap = Invalid
    /\ BatchIdle
    /\ AcqIdle
    /\ ScraperIdle
    /\ RestIdle

\* download_all_attachments: downloaded = [] and the first iteration.
DownloadAll(attachments) ==
    /\ spc \in {"idle", "done", "raised"}
    /\ srun < MaxDlRuns
    /\ srun' = srun + 1
    /\ dl_atts' = attachments
    /\ paths' = <<>>
    /\ att_i' = 1
    /\ spc' = IF attachments = <<>> THEN "done" ELSE "call"
    /\ tried' = <<>>
    /\ ret' = <<>>
    /\ UNCHANGED pdfs

\* download_attachment up to the choice of the first strategy.
Begin ==
    /\ spc = "call"
    /\ tried' = <<>>
    /\ IF Attachment.kind # "dict"
       THEN /\ ret' = <<>>
            /\ spc' = "ret"
       ELSE IF AlreadyDownloaded(pdfs, FilePath(Attachment))
            THEN /\ ret' = FilePath(Attachment)
                 /\ spc' = "ret"
            ELSE /\ ret' = <<>>
                 /\ spc' = IF StartsWith(Attachment.DownloadUrl, HttpPrefix)
                           THEN "direct" ELSE "click"
    /\ UNCHANGED <<pdfs, dl_atts, att_i, paths, srun>>

\* self.page.context.cookies() raises: nothing in download_attachment or
\* download_all_attachments catches it.
CookiesRaise ==
    /\ spc \in {"direct", "endpoint1"}
    /\ spc' = "raised"
    /\ UNCHANGED <<pdfs, dl_atts, att_i, tried, ret, paths, srun>>

\* Method 1: the direct download URL.
Direct(resp) ==
    /\ spc = "direct"
    /\ tried' = Append(tried, "direct")
    /\ IF ResponseOk(resp)
       THEN /\ pdfs' = WriteFile(pdfs, FilePath(Attachment), "direct")
            /\ ret' = FilePath(Attachment)
            /\ spc' = "ret"
       ELSE /\ spc' = "click"
            /\ UNCHANGED <<pdfs, ret>>
    /\ UNCHANGED <<dl_atts, att_i, paths, srun>>

\* Method 2: click-to-download; clicked is whether a download came.
Click(clicked) ==
    /\ spc = "click"
    /\ tried' = Append(tried, "click")
    /\ IF clicked
       THEN /\ pdfs' = WriteFile(pdfs, FilePath(Attachment), "click")
            /\ ret' = FilePath(Attachment)
            /\ spc' = "ret"
       ELSE /\ spc' = IF Attachment.AttachmentId # <<>> THEN "endpoint1" ELSE "ret"
            /\ UNCHANGED <<pdfs, ret>>
    /\ UNCHANGED <<dl_atts, att_i, paths, srun>>

\* Method 3: one of the three constructed endpoints.
Endpoint(resp) ==
    /\ spc \in {"endpoint1", "endpoint2", "endpoint3"}
    /\ tried' = Append(tried, spc)
    /\ IF ResponseOk(resp)
       THEN /\ pdfs' = WriteFile(pdfs, FilePath(Attachment), spc)
            /\ ret' = FilePath(Attachment)
            /\ spc' = "ret"
       ELSE /\ spc' = NextEndpoint(spc)
            /\ UNCHANGED <<pdfs, ret>>
    /\ UNCHANGED <<dl_atts, att_i, paths, srun>>

\* if path: downloaded.append(path), and the next iteration.
Collect ==
    /\ spc = "ret"
    /\ paths' = IF ret # <<>> THEN Append(paths, ret) ELSE paths
    /\ IF att_i < Len(dl_atts)
       THEN /\ att_i' = att_i + 1
            /\ spc' = "call"
       ELSE /\ spc' = "done"
            /\ UNCHANGED att_i
    /\ UNCHANGED <<pdfs, dl_atts, tried, ret, srun>>

\* What http_client.get can give: the answers of a direct URL and a 200
\* whose body is one byte under the threshold.
HttpResponses ==
    Responses \cup {[raised |-> FALSE, status |-> 200, size |-> MinBody - 1]}

NextDl ==
    \/ \E attachments \in ListsUpTo(DlAtts, MaxDl) :
          srun = 0 /\ DownloadAll(attachments) /\ OnlyDownload
    \/ srun > 0 /\ DownloadAll(dl_atts) /\ OnlyDownload
    \/ Begin /\ OnlyDownload
    \/ CookiesRaise /\ OnlyDownload
    \/ \E resp \in HttpResponses : Direct(resp) /\ OnlyDownload
    \/ \E clicked \in BOOLEAN : Click(clicked) /\ OnlyDownload
    \/ \E resp \in HttpResponses : Endpoint(resp) /\ OnlyDownload
    \/ Collect /\ OnlyDownload

SpecDl == InitDl /\ [][NextDl]_vars

(***************************************************************************)
(* Claims about download_attachment.                                       *)
(***************************************************************************)
\* C8: when a file already exists at the attachment's destination path,
\* download_attachment returns that path, goes to the network with no
\* strategy and leaves the files as they are.
C8_ExistingFileSkipsDownload ==
    [][(/\ spc = "call"
        /\ Attachment.kind = "dict"
        /\ FilePath(Attachment) \in DOMAIN pdfs)
       => (/\ spc' = "ret"
           /\ ret' = FilePath(Attachment)
           /\ tried' = <<>>
           /\ pdfs' = pdfs)]_vars

\* A call has returned the path of a file it found in place: no strategy
\* was tried.
C8_Witness ==
    /\ spc = "ret"
    /\ ret # <<>>
    /\ ret \in DOMAIN pdfs
    /\ tried = <<>>

\* C11: a failure while downloading one attachment never keeps another
\* attachment of the case from being attempted: when the loop is over,
\* download_attachment has been called for every attachment of the list.
C11_EveryAttachmentAttempted ==
    (srun > 0 /\ spc \in {"done", "raised"}) => att_i >= Len(dl_atts)

(***************************************************************************)
(* Resolution of a plan number to a case key:                              *)
(* EnerGovAPIClient.plan_number_to_case_id, and                            *)
(* EnerGovScraper.search_plan_number as scrape_plan calls it.              *)
(***************************************************************************)
PlanZ1 == <<"Z", "1">>
PlanZ1Lower == <<"z", "1">>
PlanZ2 == <<"Z", "2">>

PlanQueries == {PlanZ1, PlanZ1Lower, PlanZ2}

\* str.upper(), character by character.
UpperChar(c) ==
    CASE c = "p" -> "P" [] c = "d" -> "D" [] c = "f" -> "F" [] c = "z" -> "Z"
      [] OTHER -> c

Upper(s) == [i \in 1..Len(s) |-> UpperChar(s[i])]

\* A search result; a key the result does not carry is "".
SearchItem(number, planId, capId) ==
    [PlanNumber |-> number, PlanId |-> planId, CAPId |-> capId]

SearchItems ==
    {SearchItem(PlanZ2, "k2", ""),
     SearchItem(PlanZ1Lower, "k1", ""),
     SearchItem(PlanZ1, "", "k3")}

\* item.get("PlanId") or item.get("CAPId") or item.get("CaseId") or item.get("Id")
ClientKey(item) == IF item.PlanId # "" THEN item.PlanId ELSE item.CAPId

\* data[0].get("PlanId") or data[0].get("CaseId")
ScraperKey(item) == item.PlanId

SearchShapes == {"list", "Result", "Results", "Data"}

SearchAnswers ==
    {[raised |-> TRUE, status |-> 0, shape |-> "none", items |-> <<>>],
     [raised |-> FALSE, status |-> 500, shape |-> "none", items |-> <<>>]}
    \cup {[raised |-> FALSE, status |-> 200, shape |-> sh, items |-> l] :
            sh \in SearchShapes, l \in ListsUpTo(SearchItems, MaxResults)}

\* item_number.upper() == plan_number.upper()
NumberMatches(item, plan) == Upper(item.PlanNumber) = Upper(plan)

HasMatch(items, plan) == \E i \in 1..Len(items) : NumberMatches(items[i], plan)

FirstMatch(items, plan) ==
    CHOOSE i \in 1..Len(items) :
        /\ NumberMatches(items[i], plan)
        /\ \A j \in 1..(i - 1) : ~NumberMatches(items[j], plan)

\* The items plan_number_to_case_id reads from what search_plans returned.
ClientItems(answer) ==
    IF answer.shape \in {"list", "Result", "Results"} THEN answer.items ELSE <<>>

\* The loop for the exact match, then the first result.
ClientChoice(items, plan) ==
    IF HasMatch(items, plan) THEN ClientKey(items[FirstMatch(items, plan)])
    ELSE IF items # <<>> THEN ClientKey(items[1])
    ELSE ""

\* EnerGovAPIClient.plan_number_to_case_id.
PlanNumberToCaseId(plan, answer) ==
    /\ rpc = "idle"
    /\ resolver' = "client"
    /\ plan_query' = plan
    /\ IF answer.raised \/ answer.status # 200
       THEN /\ search_items' = <<>>
            /\ case_key' = ""
       ELSE /\ search_items' = ClientItems(answer)
            /\ case_key' = ClientChoice(ClientItems(answer), plan)
    /\ rpc' = "done"

\* EnerGovScraper.search_plan_number up to the first search request.
SearchPlanNumber(plan) ==
    /\ rpc = "idle"
    /\ resolver' = "scraper"
    /\ plan_query' = plan
    /\ rpc' = "endpoint1"
    /\ UNCHANGED <<search_items, case_key>>

NextSearchEndpoint(step) ==
    CASE step = "endpoint1" -> "endpoint2"
      [] step = "endpoint2" -> "endpoint3"
      [] OTHER -> "browser"

\* One of the three search endpoints.
SearchEndpoint(answer) ==
    /\ rpc \in {"endpoint1", "endpoint2", "endpoint3"}
    /\ IF ~answer.raised /\ answer.status = 200 /\ answer.items # <<>>
       THEN /\ search_items' = answer.items
            /\ case_key' = ScraperKey(answer.items[1])
            /\ rpc' = "done"
       ELSE /\ rpc' = NextSearchEndpoint(rpc)
            /\ UNCHANGED <<search_items, case_key>>
    /\ UNCHANGED <<resolver, plan_query>>

BrowserKeys == {"", "k9"}

\* The browser navigation approach: the case id read from the URL, or None.
BrowserApproach(key) ==
    /\ rpc = "browser"
    /\ case_key' = key
    /\ rpc' = "done"
    /\ UNCHANGED <<resolver, plan_query, search_items>>

\* scrape_plan: if not case_id: raise ValueError
ScrapePlanResolved ==
    /\ rpc = "done"
    /\ resolver = "scraper"
    /\ rpc' = IF case_key = "" THEN "raised" ELSE "resolved"
    /\ UNCHANGED <<resolver, plan_query, search_items, case_key>>

InitResolve ==
    /\ data = EmptyData /\ file = NoFile /\ pc = "down"
    /\ loadError = FALSE /\ snap = Invalid
    /\ BatchIdle
    /\ AcqIdle
    /\ ScraperIdle
    /\ RestIdle

NextResolve ==
    \/ rpc = "idle" /\ \E plan \in PlanQueries, answer \in SearchAnswers :
          PlanNumberToCaseId(plan, answer) /\ OnlyResolve
    \/ \E plan \in PlanQueries : SearchPlanNumber(plan) /\ OnlyResolve
    \/ \E answer \in SearchAnswers : SearchEndpoint(answer) /\ OnlyResolve
    \/ \E key \in BrowserKeys : BrowserApproach(key) /\ OnlyResolve
    \/ ScrapePlanResolved /\ OnlyResolve

SpecResolve == InitResolve /\ [][NextResolve]_vars

\* C12: when the search returns several results, the case key returned is
\* that of the result whose plan number equals the requested one without
\* regard to case, even when it is not the first; the first result is used
\* only when none matches.
C12_ExactMatchBeforeFirst ==
    (rpc \in {"done", "resolved", "raised"} /\ Len(search_items) > 1) =>
        IF HasMatch(search_items, plan_query)
        THEN case_key = ClientKey(search_items[FirstMatch(search_items, plan_query)])
        ELSE case_key = ClientKey(search_items[1])

(***************************************************************************)
(* Claims about the single tracker calls.                                  *)
(***************************************************************************)
\* The lists of the tracker that hold an identifier.
Membership(d, plan_id) ==
    [pending |-> In(plan_id, d.pending),
     completed |-> In(plan_id, d.completed),
     failed |-> In(plan_id, d.failed)]

OthersKeep(d, e, plan_id) ==
    \A other \in TrackIds \ {plan_id} : Membership(d, other) = Membership(e, other)

\* The text _save writes holds the reason.
Recorded(d, error) == In(error, Serialize(d))

\* C13: set_pending with a list of identifiers leaves pending equal to that
\* list and completed and failed both empty, whatever the tracker held
\* before the call.
C13_SetPendingClearsLists ==
    [][\A plan_ids \in ListsUpTo(TrackIds, MaxLen) :
          SetPending(plan_ids) =>
              /\ data'.pending = plan_ids
              /\ data'.completed = <<>>
              /\ data'.failed = <<>>]_vars

\* C14: after mark_completed(id), id is in completed and in neither pending
\* nor failed, whatever the tracker held before, and every other identifier
\* is in the lists it was in.
C14_MarkCompletedMoves ==
    [][\A plan_id \in TrackIds :
          MarkCompleted(plan_id) =>
              /\ In(plan_id, data'.completed)
              /\ ~In(plan_id, data'.pending)
              /\ ~In(plan_id, data'.failed)
              /\ OthersKeep(data, data', plan_id)]_vars

\* C15: after mark_failed(id, reason), id is in failed and not in pending,
\* the reason is recorded with it in the tracker state, and the completed
\* list and every other identifier's lists are as before.
C15_MarkFailedRecordsReason ==
    [][\A plan_id \in TrackIds, error \in Errors :
          MarkFailed(plan_id, error) =>
              /\ In(plan_id, data'.failed)
              /\ ~In(plan_id, data'.pending)
              /\ Recorded(data', error)
              /\ data'.completed = data.completed
              /\ OthersKeep(data, data', plan_id)]_vars

(***************************************************************************)
(* analyzer: extract_pdf_content, extract_key_data and the summary of      *)
(* analyze.  Texts are sequences of characters; a piece of text no pattern *)
(* can match in is written as one element.                                 *)
(***************************************************************************)
TextLimit == 5000

Whitespace == {" ", "\n"}

\* Z\d{10} with re.IGNORECASE matches at position i.
PlanMatchAtI(s, i) ==
    /\ i + 10 <= Len(s)
    /\ UpperChar(s[i]) = "Z"
    /\ \A j \in 1..10 : s[i + j] \in Digits

\* re.search(r'Z\d{10}', text, re.IGNORECASE).group(0), <<>> for no match.
PlanNumberInI(s) ==
    IF \E i \in 1..Len(s) : PlanMatchAtI(s, i)
    THEN LET i == CHOOSE i \in 1..Len(s) :
                    PlanMatchAtI(s, i) /\ \A j \in 1..(i-1) : ~PlanMatchAtI(s, j)
         IN  SubSeq(s, i, i + 10)
    ELSE <<>>

\* Length of the longest run of characters of set chars that starts at i.
RunAt(s, i, chars) ==
    CHOOSE n \in 0..(Len(s) - i + 1) :
        /\ \A j \in i..(i + n - 1) : s[j] \in chars
        /\ (i + n <= Len(s)) => s[i + n] \notin chars

UnitWords ==
    {<<"u", "n", "i", "t">>,
     <<"d", "w", "e", "l", "l", "i", "n", "g", " ", "u", "n", "i", "t">>,
     <<"d", "u">>}

\* (\d+)\s*(?:units?|dwelling units?|DU) with re.IGNORECASE matches at i.
UnitsMatchAt(s, i) ==
    /\ s[i] \in Digits
    /\ LET n == RunAt(s, i, Digits)
           m == RunAt(s, i + n, Whitespace)
       IN  \E word \in UnitWords :
              StartsWith(Lower(SubSeq(s, i + n + m, Len(s))), word)

\* group(1) of the first match, <<>> for no match.
UnitsIn(s) ==
    IF \E i \in 1..Len(s) : UnitsMatchAt(s, i)
    THEN LET i == CHOOSE i \in 1..Len(s) :
                    UnitsMatchAt(s, i) /\ \A j \in 1..(i-1) : ~UnitsMatchAt(s, j)
         IN  SubSeq(s, i, i + RunAt(s, i, Digits) - 1)
    ELSE <<>>

\* extract_key_data: the keys whose pattern matches, with the match.  The
\* texts below hold nothing the other eight patterns match.
extract_key_data(text) ==
    [key \in (IF PlanNumberInI(text) # <<>> THEN {"plan_number"} ELSE {})
             \cup (IF UnitsIn(text) # <<>> THEN {"units"} ELSE {}) |->
        IF key = "plan_number" THEN PlanNumberInI(text) ELSE UnitsIn(text)]

\* "\n".join(text_content)
RECURSIVE JoinLines(_)
JoinLines(text_content) ==
    IF text_content = <<>> THEN <<>>
    ELSE IF Len(text_content) = 1 THEN Head(text_content)
    ELSE Head(text_content) \o <<"\n">> \o JoinLines(Tail(text_content))

\* A downloaded file: its name, whether pdfplumber.open succeeds, the text
\* of its pages, the kind of exception when it does not open, and the
\* number of the page whose extraction raises (0: none does).
DocFile(name, opens, pages, error) ==
    [name |-> name, opens |-> opens, pages |-> pages, error |-> error, fails |-> 0]

\* The file with page.extract_text() raising on page k.
FailingAt(f, k) == [f EXCEPT !.fails = k, !.error = "page"]

PagePlanUnits ==
    <<"Z", "2", "0", "2", "4", "0", "0", "0", "2", "0", "2", " ", "3", "d", "u">>
PagePlanLower == <<"z", "2", "0", "2", "4", "0", "0", "0", "3", "0", "3">>
PageUnits == <<"7", " ", "D", "U">>

\* A name that passes lower().endswith(".pdf") but not the test of step 4.
NameMixed == <<"m", ".", "P", "d", "f">>

DocFiles ==
    {DocFile(NameA, TRUE, <<PagePlanUnits>>, "none"),
     DocFile(Sanitize(NameB), TRUE, <<PagePlanLower, PageUnits>>, "none"),
     DocFile(NameZ, FALSE, <<>>, "oserror"),
     DocFile(NameA, FALSE, <<>>, "syntax"),
     DocFile(NameMixed, TRUE, <<PageUnits>>, "none"),
     FailingAt(DocFile(NameZ, TRUE, <<PageUnits, PagePlanUnits>>, "none"), 1)}

\* str(e): an OSError names the path, a PDF syntax error does not.
ErrorMessage(f) ==
    IF f.error = "oserror"
    THEN <<"[Errno 2] No such file or directory: '">> \o f.name \o <<"'">>
    ELSE IF f.error = "page"
    THEN <<"unpack requires a buffer of 4 bytes">>
    ELSE <<"No /Root object! - Is this really a PDF?">>

\* f"[Error: {e}]"
ErrorText(f) == <<"[Error: ">> \o ErrorMessage(f) \o <<"]">>

\* full_text[:5000]
Truncate(text) ==
    IF Len(text) > TextLimit THEN SubSeq(text, 1, TextLimit) ELSE text

\* text_content after the try block: the pages read before an exception
\* left the with block, then the diagnostic of the except branch.
TextContent(f) ==
    IF ~f.opens THEN <<ErrorText(f)>>
    ELSE IF f.fails = 0 THEN f.pages
    ELSE Append(SubSeq(f.pages, 1, f.fails - 1), ErrorText(f))

extract_pdf_content(f) ==
    [filename |-> f.name,
     text |-> Truncate(JoinLines(TextContent(f))),
     page_count |-> IF f.opens THEN Len(f.pages) ELSE 0,
     key_data |-> extract_key_data(JoinLines(TextContent(f)))]

\* pdf_path.endswith('.pdf') or pdf_path.endswith('.PDF')
IsPdfPath(name) ==
    EndsWith(name, DotPdf) \/ EndsWith(name, <<".", "P", "D", "F">>)

\* A summary in which the later document overwrites.
LastWins(sum, key_data) ==
    [key \in DOMAIN sum \cup DOMAIN key_data |->
        IF key \in DOMAIN key_data THEN key_data[key] ELSE sum[key]]

\* if key not in result.summary: result.summary[key] = value
FirstWins(sum, key_data) ==
    [key \in DOMAIN sum \cup DOMAIN key_data |->
        IF key \in DOMAIN sum THEN sum[key] ELSE key_data[key]]

\* Step 5: for content in result.extracted_data
RECURSIVE BuildSummaryFrom(_, _)
BuildSummaryFrom(contents, sum) ==
    IF contents = <<>> THEN sum
    ELSE BuildSummaryFrom(Tail(contents), FirstWins(sum, Head(contents).key_data))

InitAnalyze ==
    /\ data = EmptyData /\ file = NoFile /\ pc = "down"
    /\ loadError = FALSE /\ snap = Invalid
    /\ BatchIdle
    /\ AcqIdle
    /\ ScraperIdle
    /\ RestIdle

\* analyze once step 3 has given the downloaded files.
Analyze(files) ==
    /\ zpc = "idle"
    /\ downloaded_files' = files
    /\ file_i' = 1
    /\ zpc' = IF files # <<>> THEN "extract" ELSE "summary"
    /\ UNCHANGED <<extracted_data, summary>>

\* Step 4, one file.
ExtractStep ==
    /\ zpc = "extract"
    /\ extracted_data' =
          IF IsPdfPath(downloaded_files[file_i].name)
          THEN Append(extracted_data, extract_pdf_content(downloaded_files[file_i]))
          ELSE extracted_data
    /\ IF file_i < Len(downloaded_files)
       THEN /\ file_i' = file_i + 1
            /\ UNCHANGED zpc
       ELSE /\ zpc' = "summary"
            /\ UNCHANGED file_i
    /\ UNCHANGED <<downloaded_files, summary>>

\* Step 5.
BuildSummary ==
    /\ zpc = "summary"
    /\ summary' = BuildSummaryFrom(extracted_data, summary)
    /\ zpc' = "done"
    /\ UNCHANGED <<downloaded_files, file_i, extracted_data>>

NextAnalyze ==
    \/ zpc = "idle" /\ \E files \in ListsUpTo(DocFiles, MaxDocs) :
          Analyze(files) /\ OnlyAnalyze
    \/ ExtractStep /\ OnlyAnalyze
    \/ BuildSummary /\ OnlyAnalyze

SpecAnalyze == InitAnalyze /\ [][NextAnalyze]_vars

(***************************************************************************)
(* Claims about the analyzer.                                              *)
(***************************************************************************)
HasKey(i, key) == key \in DOMAIN extracted_data[i].key_data

FirstWith(key) ==
    CHOOSE i \in 1..Len(extracted_data) :
        HasKey(i, key) /\ \A j \in 1..(i - 1) : ~HasKey(j, key)

SummaryKeys == {"plan_number", "units"}

\* C16: the summary holds, for every key, the value of the first document
\* in processing order whose key_data has that key; a later document never
\* overwrites it.
C16_FirstWriterWins ==
    zpc = "done" =>
        \A key \in SummaryKeys :
            IF \E i \in 1..Len(extracted_data) : HasKey(i, key)
            THEN /\ key \in DOMAIN summary
                 /\ summary[key] = extracted_data[FirstWith(key)].key_data[key]
            ELSE key \notin DOMAIN summary

\* Two documents give different values for one key, and the summary has
\* the first one's.
C16_Witness ==
    /\ zpc = "done"
    /\ Len(extracted_data) = 2
    /\ HasKey(1, "units") /\ HasKey(2, "units")
    /\ extracted_data[1].key_data["units"] # extracted_data[2].key_data["units"]
    /\ summary["units"] = extracted_data[1].key_data["units"]

\* C17: for a file that cannot be opened, extract_pdf_content returns a
\* document whose text is a diagnostic string and whose key_data is empty,
\* and step 4 goes on with the remaining files.
C17_UnopenableFileGivesEmptyKeyData ==
    [][(/\ zpc = "extract"
        /\ IsPdfPath(downloaded_files[file_i].name)
        /\ ~downloaded_files[file_i].opens)
       => (/\ Len(extracted_data') = Len(extracted_data) + 1
           /\ StartsWith(extracted_data'[Len(extracted_data')].text, <<"[Error: ">>)
           /\ extracted_data'[Len(extracted_data')].key_data = NoData
           /\ (file_i < Len(downloaded_files) => zpc' = "extract"))]_vars

(***************************************************************************)
(* api_server: create_batch_job, process_batch and the jobs registry.      *)
(* The server runs its handlers and background tasks on one event loop, so *)
(* a step of a task is what it executes from one await to the next.        *)
(***************************************************************************)
\* The case ids of a request are interchangeable: the lists are the
\* prefixes of this one.
BatchCases == <<"c1", "c2", "c3">>

BatchRequests == {SubSeq(BatchCases, 1, n) : n \in 0..MaxCases}

\* d[key] = val on a Python dictionary.
SetKey(d, key, val) ==
    [x \in DOMAIN d \cup {key} |-> IF x = key THEN val ELSE d[x]]

\* What download_attachments does for process_batch: it returns its
\* result, returns the no-PDF dictionary, or raises.
DownloadOutcomes == {"result", "nopdf", "raises"}

\* The entry process_batch holds for a case: the dictionary returned, or
\* {"case_id": case_id, "error": str(e)} for an exception.
EntryOf(cid, res) ==
    CASE res = "result" -> [case_id |-> cid, downloaded |-> 1]
      [] res = "nopdf" -> [case_id |-> cid, error |-> "No PDF attachments found"]
      [] OTHER -> [case_id |-> cid, error |-> "str(e)"]

\* A loop body whose except branch appends nothing.
AppendUnlessRaised(entries, cid, res) ==
    IF res = "raises" THEN entries ELSE Append(entries, EntryOf(cid, res))

\* The try statement of process_batch: results.append in either branch.
AppendEntry(entries, cid, res) == Append(entries, EntryOf(cid, res))

\* process_batch from the head of an iteration to its next await, or
\* through the statements after the loop when the list is exhausted.
ToNextAwait(job, task) ==
    IF task.i < Len(task.case_ids)
    THEN [job |-> SetKey(SetKey(job, "progress", <<task.i, Len(task.case_ids)>>),
                         "current", task.case_ids[task.i + 1]),
          task |-> [task EXCEPT !.state = "awaiting"]]
    ELSE [job |-> SetKey(SetKey(SetKey(SetKey(job,
                      "status", "completed"),
                      "completed_at", "ts"),
                      "results", task.entries),
                      "progress", <<Len(task.case_ids), Len(task.case_ids)>>),
          task |-> [task EXCEPT !.state = "finished"]]

InitJobs ==
    /\ data = EmptyData /\ file = NoFile /\ pc = "down"
    /\ loadError = FALSE /\ snap = Invalid
    /\ BatchIdle
    /\ AcqIdle
    /\ ScraperIdle
    /\ RestIdle

\* POST /batch: the job id is a fresh one.
CreateBatchJob(case_ids) ==
    /\ Cardinality(DOMAIN jobs) < MaxJobs
    /\ LET job_id == Cardinality(DOMAIN jobs) + 1
       IN  /\ jobs' = SetKey(jobs, job_id,
                        [id |-> job_id, status |-> "queued", created_at |-> "ts",
                         case_ids |-> case_ids, total |-> Len(case_ids),
                         progress |-> <<0, Len(case_ids)>>])
           /\ batch_tasks' = SetKey(batch_tasks, job_id,
                        [state |-> "scheduled", case_ids |-> case_ids, i |-> 0,
                         entries |-> <<>>, raised |-> {}])

\* process_batch starts: up to its first await.
ProcessBatchStart(job_id) ==
    /\ batch_tasks[job_id].state = "scheduled"
    /\ LET started == SetKey(SetKey(jobs[job_id], "status", "processing"),
                             "started_at", "ts")
           next == ToNextAwait(started, batch_tasks[job_id])
       IN  /\ jobs' = [jobs EXCEPT ![job_id] = next.job]
           /\ batch_tasks' = [batch_tasks EXCEPT ![job_id] = next.task]

\* await download_attachments(case_id) is over: up to the next await.
DownloadOver(job_id, res) ==
    /\ batch_tasks[job_id].state = "awaiting"
    /\ LET task == batch_tasks[job_id]
           after == [task EXCEPT
                        !.entries = AppendEntry(@, task.case_ids[task.i + 1], res),
                        !.raised = IF res = "raises" THEN @ \cup {task.i + 1} ELSE @,
                        !.i = @ + 1]
           next == ToNextAwait(jobs[job_id], after)
       IN  /\ jobs' = [jobs EXCEPT ![job_id] = next.job]
           /\ batch_tasks' = [batch_tasks EXCEPT ![job_id] = next.task]

NextJobs ==
    \/ \E case_ids \in BatchRequests : CreateBatchJob(case_ids) /\ OnlyJobs
    \/ \E job_id \in DOMAIN jobs : ProcessBatchStart(job_id) /\ OnlyJobs
    \/ \E job_id \in DOMAIN jobs, res \in DownloadOutcomes :
          DownloadOver(job_id, res) /\ OnlyJobs

SpecJobs == InitJobs /\ [][NextJobs]_vars

(***************************************************************************)
(* Claims about the job registry.                                          *)
(***************************************************************************)
StatusRank(status) ==
    CASE status = "queued" -> 0
      [] status = "processing" -> 1
      [] OTHER -> 2

IsErrorEntry(entry) == DOMAIN entry = {"case_id", "error"}

JobForward(job_id) ==
    /\ job_id \in DOMAIN jobs'
    /\ StatusRank(jobs'[job_id].status) >= StatusRank(jobs[job_id].status)
    /\ (jobs[job_id].status = "processing" /\ jobs'[job_id].status = "processing")
          => jobs'[job_id].progress[1] >= jobs[job_id].progress[1]

JobCompleteInFull(job_id) ==
    LET job == jobs[job_id]
    IN  job.status = "completed" =>
            /\ job.progress = <<Len(job.case_ids), Len(job.case_ids)>>
            /\ Len(job.results) = Len(job.case_ids)
            /\ \A n \in 1..Len(job.case_ids) :
                  /\ job.results[n].case_id = job.case_ids[n]
                  /\ n \in batch_tasks[job_id].raised => IsErrorEntry(job.results[n])

\* C18: every job of the registry moves only forward through queued,
\* processing, completed; while it is processing the i of its progress
\* never decreases; once it is completed its progress is n/n and results
\* has one entry per submitted case id, an error entry for a case whose
\* acquisition raised.
C18_JobsMoveForward ==
    /\ [][\A job_id \in DOMAIN jobs : JobForward(job_id)]_vars
    /\ [](\A job_id \in DOMAIN jobs : JobCompleteInFull(job_id))

\* A job of two cases is completed although the acquisition of the first
\* raised, while another job is still in the registry.
C18_Witness ==
    \E job_id \in DOMAIN jobs :
        /\ jobs[job_id].status = "completed"
        /\ Len(jobs[job_id].case_ids) = 2
        /\ 1 \in batch_tasks[job_id].raised
        /\ IsErrorEntry(jobs[job_id].results[1])
        /\ ~IsErrorEntry(jobs[job_id].results[2])
        /\ Cardinality(DOMAIN jobs) = 2

(***************************************************************************)
(* Claims about the order of the download strategies.                      *)
(***************************************************************************)
\* The order the spec gives: direct URL, session fetch, click.
SpecRank(strategy) ==
    CASE strategy = "direct" -> 1
      [] strategy = "click" -> 3
      [] OTHER -> 2

\* The order of download_attachment: Method 1, Method 2, the three
\* endpoints of Method 3.
CodeRank(strategy) ==
    CASE strategy = "direct" -> 1
      [] strategy = "click" -> 2
      [] strategy = "endpoint1" -> 3
      [] strategy = "endpoint2" -> 4
      [] OTHER -> 5

InCall == spc \in {"direct", "click", "endpoint1", "endpoint2", "endpoint3", "ret", "raised"}

\* The call returned a path it has just written: the strategy tried last
\* is the one that wrote it.
LastTriedSucceeded ==
    (spc = "ret" /\ ret # <<>> /\ tried # <<>>) => pdfs[ret] = tried[Len(tried)]

ProbeFailed == variant = "fast" /\ unique_pdfs # <<>> /\ tasks = <<>>

\* The round of the click loop for attachment idx: the link is clicked
\* and one download event is awaited, unless the file is there already.
RoundClicks ==
    (apc = "click" /\ idx <= Len(unique_pdfs) /\ idx' = idx + 1) =>
        \/ LocalPath(unique_pdfs[idx]) \in fs
        \/ fetches'.click = fetches.click + 1 /\ waits' = {idx}

\* C20: when the probe of the first attachment's URL fails, fast_download
\* takes every attachment of the case through the click loop, one at a
\* time: never more than one download event is awaited on the page.
C20_ClickFallbackOneAtATime ==
    /\ [](Cardinality(waits) <= 1)
    /\ [](ProbeFailed =>
            /\ fetches.direct = 0
            /\ apc \in {"meta", "done"} => idx = Len(unique_pdfs) + 1)
    /\ [][ProbeFailed => RoundClicks]_vars

\* The probe failed and the loop has clicked two attachments, the second
\* after the first download was over.
C20_Witness ==
    /\ ProbeFailed
    /\ fetches.probe = 1
    /\ apc = "click"
    /\ fetches.click = 2
    /\ waits = {2}

(***************************************************************************)
(* Claims about the direct-URL phase of fast_download.                     *)
(***************************************************************************)
\* The probe of the first attachment's URL answered 200 in this run: the
\* download_direct tasks were created.
ProbeSucceeded == variant = "fast" /\ tasks # <<>>

\* C21: once the probe of the first attachment's direct URL has succeeded,
\* fast_download uses the direct-URL tier only: the click loop is never
\* entered and no link is clicked for the case, whatever the direct
\* downloads give.
C21_NoClickAfterProbe ==
    ProbeSucceeded => (apc # "click" /\ fetches.click = 0)

(***************************************************************************)
(* The direct-URL phase of fast_download task by task: the probe, then the *)
(* bounded_download tasks gathered behind asyncio.Semaphore(PARALLEL).     *)
(* The event loop starts the tasks in the order gather created them, and   *)
(* the semaphore wakes its waiters in the order they came.                 *)
(***************************************************************************)
PARALLEL == 10

MaxTasks == 11

\* An attachment as the phase sees it: it has a ThumbnailUrl or not, its
\* local path exists or not.
FanAtt(url, exists) == [url |-> url, exists |-> exists]

\* Lists of n attachments: every one to be fetched, the first without a
\* URL, the second already on disk, the last without a URL.
FanLists ==
    UNION {{[i \in 1..n |-> FanAtt(TRUE, FALSE)],
            [i \in 1..n |-> FanAtt(i # 1, FALSE)],
            [i \in 1..n |-> FanAtt(TRUE, i = 2)],
            [i \in 1..n |-> FanAtt(i # n, FALSE)]} : n \in 1..MaxTasks}

\* A semaphore that lets every task in.
SemAlwaysFree(value) == TRUE

\* async with sem: the task goes in while the value is positive.
SemFree(value) == value > 0

InitFan ==
    /\ data = EmptyData /\ file = NoFile /\ pc = "down"
    /\ loadError = FALSE /\ snap = Invalid
    /\ BatchIdle
    /\ AcqIdle
    /\ ScraperIdle
    /\ RestIdle

\* unique_pdfs is not empty: test_att = unique_pdfs[0].
FanStart(atts) ==
    /\ fpc = "idle"
    /\ fan' = atts
    /\ fpc' = "probe"
    /\ UNCHANGED <<probed, sem, entered, flight>>

\* thumb_url is empty: downloaded = 0 and the click loop follows.
FanProbeSkipped ==
    /\ fpc = "probe"
    /\ ~fan[1].url
    /\ fpc' = "click"
    /\ UNCHANGED <<fan, probed, sem, entered, flight>>

\* test_page.goto(thumb_url): on status 200 the semaphore is made and the
\* tasks are gathered, otherwise downloaded = 0.
FanProbe(resp) ==
    /\ fpc = "probe"
    /\ fan[1].url
    /\ IF ~resp.raised /\ resp.status = 200
       THEN /\ probed' = "ok"
            /\ sem' = PARALLEL
            /\ fpc' = "gather"
       ELSE /\ probed' = "failed"
            /\ fpc' = "click"
            /\ UNCHANGED sem
    /\ UNCHANGED <<fan, entered, flight>>

\* bounded_download(att, i) up to its first wait: the task enters the
\* semaphore; download_direct returns at once for a file that exists or
\* an attachment without URL and the semaphore is released, otherwise it
\* opens a page and fetches the URL.
BoundedDownload(i) ==
    /\ fpc = "gather"
    /\ i = entered + 1
    /\ i <= Len(fan)
    /\ SemFree(sem)
    /\ entered' = i
    /\ IF fan[i].exists \/ ~fan[i].url
       THEN UNCHANGED <<sem, flight>>
       ELSE /\ sem' = sem - 1
            /\ flight' = flight \cup {i}
    /\ UNCHANGED <<fpc, fan, probed>>

\* download_direct returns True or False (or its except branch ran): the
\* async with block releases the semaphore.
DownloadReturns(i) ==
    /\ fpc = "gather"
    /\ i \in flight
    /\ flight' = flight \ {i}
    /\ sem' = sem + 1
    /\ UNCHANGED <<fpc, fan, probed, entered>>

\* results = await asyncio.gather(*tasks)
GatherReturns ==
    /\ fpc = "gather"
    /\ entered = Len(fan)
    /\ flight = {}
    /\ fpc' = "gathered"
    /\ UNCHANGED <<fan, probed, sem, entered, flight>>

NextFan ==
    \/ fpc = "idle" /\ \E atts \in FanLists : FanStart(atts) /\ OnlyFan
    \/ FanProbeSkipped /\ OnlyFan
    \/ \E resp \in Responses : FanProbe(resp) /\ OnlyFan
    \/ \E i \in 1..MaxTasks : BoundedDownload(i) /\ OnlyFan
    \/ \E i \in 1..MaxTasks : DownloadReturns(i) /\ OnlyFan
    \/ GatherReturns /\ OnlyFan

SpecFan == InitFan /\ [][NextFan]_vars

\* C22: at most PARALLEL (10) direct downloads are in flight at any
\* instant, for lists longer than PARALLEL too, and no bounded_download
\* task runs unless the probe of the first attachment answered 200.
C22_AtMostParallelInFlight ==
    /\ Cardinality(flight) <= PARALLEL
    /\ (entered > 0 \/ flight # {}) => probed = "ok"

\* PARALLEL downloads are in flight and a further task waits for the
\* semaphore.
C22_Witness ==
    /\ probed = "ok"
    /\ Cardinality(flight) = PARALLEL
    /\ entered < Len(fan)

(***************************************************************************)
(* Claims about the body-size threshold of the direct-URL tier.            *)
(***************************************************************************)
\* A success response: no exception and status 200.
SuccessResponse(resp) == ~resp.raised /\ resp.status = 200

\* C23: in the direct-URL tier the minimum accepted body size is 100
\* bytes: a body shorter than 100 bytes leaves the files as they are, and
\* a success response with a body of 100 bytes or more is written to the
\* destination path.
C23_MinimumBodyIs100 ==
    [][\A resp \in HttpResponses : Direct(resp) =>
          /\ resp.size < MinBody => pdfs' = pdfs
          /\ (SuccessResponse(resp) /\ resp.size >= MinBody) =>
                /\ FilePath(Attachment) \in DOMAIN pdfs'
                /\ ret' = FilePath(Attachment)]_vars

(***************************************************************************)
(* Claims about the rate limiting of scrape_batch.                         *)
(***************************************************************************)
\* C24: in scrape_batch one delay follows every scraped case that is
\* followed by another one, whether it completed or failed, and no delay
\* follows the last scraped case; the j-th scraped case is the one of
\* iteration i = j - 1, and one case is scraped at a time.
C24_OneDelayBetweenCases ==
    /\ sleeps \subseteq 0..(Len(attempts) - 1)
    /\ \A j \in 1..(Len(attempts) - 1) : (j - 1) \in sleeps
    /\ pc = "done" => (Len(attempts) - 1) \notin sleeps
    /\ pc \in {"scraping", "rate"} => identifier = attempts[Len(attempts)]

\* A batch is over in which three cases were scraped, the first of them
\* failing, with a delay after the first and after the second.
C24_Witness ==
    /\ pc = "done"
    /\ Len(attempts) = 3
    /\ Len(results.failed) = 1
    /\ results.failed[1].id = attempts[1]
    /\ sleeps = {0, 1}

(***************************************************************************)
(* Claims about a page whose extraction fails.                             *)
(***************************************************************************)
\* The page texts of a file with the failing page as an empty string.
PagesWithEmpty(f) ==
    [i \in 1..Len(f.pages) |-> IF i = f.fails THEN <<>> ELSE f.pages[i]]

\* C25: when text extraction fails for one page of a document that opens,
\* the page contributes an empty string and the text and key data of the
\* other pages, the later ones included, are extracted.
C25_FailingPageIsEmpty ==
    [][(/\ zpc = "extract"
        /\ IsPdfPath(downloaded_files[file_i].name)
        /\ downloaded_files[file_i].opens
        /\ downloaded_files[file_i].fails # 0)
       => (/\ Len(extracted_data') = Len(extracted_data) + 1
           /\ extracted_data'[Len(extracted_data')].text =
                 Truncate(JoinLines(PagesWithEmpty(downloaded_files[file_i])))
           /\ extracted_data'[Len(extracted_data')].key_data =
                 extract_key_data(JoinLines(PagesWithEmpty(downloaded_files[file_i]))))]_vars

(***************************************************************************)
(* The page load of an acquisition that reads the attachment list from an  *)
(* intercepted response: fast_download, the API server's                   *)
(* download_attachments and the analyzer's fetch_and_download. The page    *)
(* emits its responses once the navigation has started, also after goto    *)
(* has returned; each matching response starts a handler, which waits for  *)
(* the body and then assigns the nonlocal list.                            *)
(***************************************************************************)
MaxResp == 2

ObserveFns == {"fast_download", "download_attachments", "fetch_and_download"}

\* A program that navigates before it registers the observer.
NavigateFirst(f) == <<"goto", "on", "sleep", "read">>

\* The statements of the page load, the same in the three functions:
\* page.on("response", handle_response); await page.goto(...);
\* await asyncio.sleep(2); the filter that reads attachments.
Statements(f) == <<"on", "goto", "sleep", "read">>

Statement == IF opos \in 1..Len(Statements(ofn)) THEN Statements(ofn)[opos] ELSE "none"

\* The lists a response can carry.
ListOne == <<Att(NameA, "u")>>
ListTwo == <<Att(NameB, ""), Att(NameZ, "u")>>

\* A response: whether handle_response's test of URL and status passes,
\* whether response.json() returns, whether Result is an object, and the
\* value of Result.Attachments (<<>> also for a missing or null one).
Body(matches, json, result, list) ==
    [matches |-> matches, json |-> json, result |-> result, list |-> list]

Bodies ==
    {Body(TRUE, TRUE, TRUE, ListOne), Body(TRUE, TRUE, TRUE, ListTwo),
     Body(TRUE, TRUE, TRUE, <<>>), Body(TRUE, FALSE, FALSE, <<>>),
     Body(TRUE, TRUE, FALSE, <<>>), Body(FALSE, TRUE, TRUE, ListOne)}

\* data = await response.json(); data.get("Result", {}).get("Attachments", [])
\* runs without an exception.
Parses(b) == b.json /\ b.result

\* An assignment that appends to what was captured before.
Merge(old, new) == old \o new

\* attachments = ... or []
Assign(old, new) == new

InitObserve ==
    /\ data = EmptyData /\ file = NoFile /\ pc = "down"
    /\ loadError = FALSE /\ snap = Invalid
    /\ BatchIdle
    /\ AcqIdle
    /\ ScraperIdle
    /\ RestIdle

\* page = await context.new_page(); attachments = []
NewPage(f) ==
    /\ opos = 0
    /\ ofn = "none"
    /\ ofn' = f
    /\ opos' = 1
    /\ UNCHANGED <<observer, loading, navigated, emitted, missed, inflight,
                   att_list, assigned, used>>

\* page.on("response", handle_response)
PageOn ==
    /\ Statement = "on"
    /\ observer' = TRUE
    /\ opos' = opos + 1
    /\ UNCHANGED <<ofn, loading, navigated, emitted, missed, inflight, att_list,
                   assigned, used>>

\* await page.goto(url, wait_until="networkidle"): the navigation starts.
GotoStarts ==
    /\ Statement = "goto"
    /\ ~loading
    /\ loading' = TRUE
    /\ navigated' = TRUE
    /\ UNCHANGED <<ofn, opos, observer, emitted, missed, inflight, att_list,
                   assigned, used>>

\* The network has been idle: goto returns.
GotoReturns ==
    /\ Statement = "goto"
    /\ loading
    /\ loading' = FALSE
    /\ opos' = opos + 1
    /\ UNCHANGED <<ofn, observer, navigated, emitted, missed, inflight, att_list,
                   assigned, used>>

\* await asyncio.sleep(2)
SleepOver ==
    /\ Statement = "sleep"
    /\ opos' = opos + 1
    /\ UNCHANGED <<ofn, observer, loading, navigated, emitted, missed, inflight,
                   att_list, assigned, used>>

\* pdf_attachments = [a for a in attachments if ...]
ReadAttachments ==
    /\ Statement = "read"
    /\ used' = [read |-> TRUE, list |-> att_list, after |-> Len(assigned)]
    /\ opos' = opos + 1
    /\ UNCHANGED <<ofn, observer, loading, navigated, emitted, missed, inflight,
                   att_list, assigned>>

\* The page emits a response: handle_response is called when it is
\* registered, and runs up to its await when URL and status match.
Emit(b) ==
    /\ navigated
    /\ emitted < MaxResp
    /\ emitted' = emitted + 1
    /\ IF observer
       THEN /\ inflight' = IF b.matches
                           THEN inflight \cup {[n |-> emitted + 1, body |-> b]}
                           ELSE inflight
            /\ UNCHANGED missed
       ELSE /\ missed' = missed + 1
            /\ UNCHANGED inflight
    /\ UNCHANGED <<ofn, opos, observer, loading, navigated, att_list, assigned, used>>

\* response.json() is over: the handler assigns the list, or its except
\* branch passes.
HandlerReturns(h) ==
    /\ h \in inflight
    /\ inflight' = inflight \ {h}
    /\ IF Parses(h.body)
       THEN /\ att_list' = Assign(att_list, h.body.list)
            /\ assigned' = Append(assigned, [n |-> h.n, list |-> h.body.list])
       ELSE UNCHANGED <<att_list, assigned>>
    /\ UNCHANGED <<ofn, opos, observer, loading, navigated, emitted, missed, used>>

NextObserve ==
    \/ \E f \in ObserveFns : NewPage(f) /\ OnlyObserve
    \/ PageOn /\ OnlyObserve
    \/ GotoStarts /\ OnlyObserve
    \/ GotoReturns /\ OnlyObserve
    \/ SleepOver /\ OnlyObserve
    \/ ReadAttachments /\ OnlyObserve
    \/ navigated /\ \E b \in Bodies : Emit(b) /\ OnlyObserve
    \/ \E h \in inflight : HandlerReturns(h) /\ OnlyObserve

SpecObserve == InitObserve /\ [][NextObserve]_vars

\* C26: the response observer is registered on the page before the
\* navigation to the attachments page starts: no response of the
\* navigation is emitted while no observer is registered.
C26_ObserverBeforeNavigation ==
    /\ navigated => observer
    /\ missed = 0

\* A matching response was emitted while goto was still waiting, and its
\* handler is running.
C26_Witness ==
    /\ loading
    /\ emitted = 1
    /\ \E h \in inflight : h.n = 1

(***************************************************************************)
(* Claims about several matching responses in one page load.               *)
(***************************************************************************)
\* The list of the assignment that ran last among the first k.
LastAssigned(k) == IF k = 0 THEN <<>> ELSE assigned[k].list

\* C30: the nonlocal list is at every moment the one assigned by the
\* handler that finished last, whatever the order the responses came in,
\* never a merge with an earlier one; the list the function goes on with
\* is the one of the last handler that had finished when it was read; a
\* handler whose body cannot be parsed leaves the list as it was.
C30_LastFinishedHandlerWins ==
    /\ [](att_list = LastAssigned(Len(assigned)))
    /\ [](used.read => used.list = LastAssigned(used.after))
    /\ [][\A h \in inflight :
            (HandlerReturns(h) /\ ~Parses(h.body)) => att_list' = att_list]_vars

\* Two matching responses came during the load and the handler of the
\* first finished after the handler of the second: the function went on
\* with the list of the first response.
C30_Witness ==
    /\ used.read
    /\ used.after = 2
    /\ assigned[1].n = 2 /\ assigned[2].n = 1
    /\ assigned[1].list # <<>>
    /\ assigned[2].list # assigned[1].list
    /\ used.list = assigned[2].list

(***************************************************************************)
(* File-name sanitization applied to a raw name and to its own result.     *)
(***************************************************************************)
MaxName == 3

\* Characters of a raw file name: kept ones and ones the pattern replaces.
NameChars == {"a", "Z", "1", "_", ".", " ", "-", "#", "/", ":"}

RawNames == UNION {[1..n -> NameChars] : n \in 0..MaxName}

InitNames ==
    /\ data = EmptyData /\ file = NoFile /\ pc = "down"
    /\ loadError = FALSE /\ snap = Invalid
    /\ BatchIdle
    /\ AcqIdle
    /\ ScraperIdle
    /\ RestIdle

\* fn = att.get("FileName", "")
TakeName(s) ==
    /\ npc = "idle"
    /\ file_name' = s
    /\ npc' = "raw"
    /\ UNCHANGED <<safe_name, safe_again>>

\* safe_name = re.sub(r'[^\w\-_\. ]', '_', fn)
SanitizeName ==
    /\ npc = "raw"
    /\ safe_name' = Sanitize(file_name)
    /\ npc' = "once"
    /\ UNCHANGED <<file_name, safe_again>>

\* The sanitized name comes in as a file name (a file listed under the
\* name it was saved as) and is sanitized.
SanitizeAgain ==
    /\ npc = "once"
    /\ safe_again' = Sanitize(safe_name)
    /\ npc' = "twice"
    /\ UNCHANGED <<file_name, safe_name>>

NextNames ==
    \/ npc = "idle" /\ \E s \in RawNames : TakeName(s) /\ OnlyNames
    \/ SanitizeName /\ OnlyNames
    \/ SanitizeAgain /\ OnlyNames

SpecNames == InitNames /\ [][NextNames]_vars

\* C27: sanitization is idempotent: sanitizing the sanitized name gives
\* the sanitized name, so that it maps to the same destination path.
C27_SanitizeIdempotent ==
    npc = "twice" => safe_again = safe_name

\* A raw name with a character the pattern replaces has been sanitized
\* twice.
C27_Witness ==
    /\ npc = "twice"
    /\ safe_name # file_name
    /\ \E i \in 1..Len(file_name) : file_name[i] = "#"
    /\ \E i \in 1..Len(file_name) : file_name[i] = "_"

(***************************************************************************)
(* scrape_batch run again and again with resume=True on a progress file    *)
(* left by earlier runs. Every scrape_plan call returns or raises, and no  *)
(* run is killed.                                                          *)
(***************************************************************************)
\* The progress states a file can hold: any pending list, duplicates
\* included, beside completed and failed lists.
PersistedStates ==
    {Stamp([EmptyData EXCEPT !.pending = p, !.completed = c, !.failed = f]) :
        p \in ListsUpTo(TrackIds, MaxLen),
        c \in {<<>>, <<"x">>},
        f \in {<<>>, <<"y">>}}

InitResume ==
    /\ persisted \in PersistedStates
    /\ data = EmptyData
    /\ file = Saved(persisted)
    /\ pc = "down"
    /\ loadError = FALSE /\ snap = Invalid
    /\ BatchIdle
    /\ AcqIdle
    /\ ScraperIdle
    /\ LaterIdle

\* python batch_scraper.py --resume
ResumeRun == BatchStart(<<>>, TRUE)

NextResume ==
    \/ ResumeRun /\ OnlyTracker
    \/ ForNext /\ OnlyTracker
    \/ ScrapeReturns /\ OnlyTracker
    \/ \E error_msg \in Errors : ScrapeRaises(error_msg) /\ OnlyTracker
    \/ RateLimit /\ OnlyTracker

SpecResume == InitResume /\ [][NextResume]_vars /\ WF_vars(NextResume)

\* The progress file holds no pending identifier, and every identifier
\* that was pending at the start is completed or failed.
Settled ==
    /\ Load(file) # Invalid
    /\ Load(file).pending = <<>>
    /\ \A plan_id \in ToSet(persisted.pending) :
          In(plan_id, Load(file).completed) \/ In(plan_id, Load(file).failed)

\* C28: from any persisted progress state, runs of scrape_batch with
\* resume=True repeated one after another reach, and stay in, a state in
\* which pending is empty and every identifier that was pending is in
\* completed or failed.
C28_ResumeDrainsPending == <>[]Settled

\* Three identifiers were pending, the second run has ended, one of the
\* scrapes failed, and nothing is pending.
C28_Witness ==
    /\ Settled
    /\ Len(persisted.pending) = 3
    /\ Distinct(persisted.pending)
    /\ runs = 2
    /\ pc = "done"
    /\ Len(Load(file).failed) > Len(persisted.failed)

(***************************************************************************)
(* api_server: download_attachments calls running together on the event    *)
(* loop, for a /download request or inside a batch job. A step of a call   *)
(* is what it runs from one await to the next; the folders under           *)
(* OUTPUT_DIR are shared by all of them.                                   *)
(***************************************************************************)
MaxConc == 3

SharedCases == {"c1", "c2"}

\* The plan number in the file names of a case: both cases belong to the
\* same plan.
PlanOf(c) == "Z2024000202"

\* The folders as they were when the call was last suspended.
DirsBeforeAwait(k) == dl_tasks[k].seen

\* new_dir.exists() is evaluated in the step that renames: no await stands
\* between the test and plan_dir.rename(new_dir).
DirsAtCheck(k) == out_dirs

\* if new_dir != plan_dir and not new_dir.exists():
RenameAllowed(new_dir, dir, dirs) == new_dir # dir /\ new_dir \notin dirs

InitShared ==
    /\ data = EmptyData /\ file = NoFile /\ pc = "down"
    /\ loadError = FALSE /\ snap = Invalid
    /\ BatchIdle
    /\ AcqIdle
    /\ ScraperIdle
    /\ RestIdle

\* A request or a batch job calls download_attachments(case_id): plan_dir
\* is made, then the call awaits the browser and the page load.
DownloadAttachments(c) ==
    /\ Len(dl_tasks) < MaxConc
    /\ out_dirs' = out_dirs \cup {c}
    /\ dl_tasks' = Append(dl_tasks,
                          [pos |-> "loading", case_id |-> c, plan_dir |-> c,
                           plan_number |-> "", seen |-> out_dirs'])

\* The page load is over and the list has no PDF: the call returns.
NoAttachments(k) ==
    /\ dl_tasks[k].pos = "loading"
    /\ dl_tasks' = [dl_tasks EXCEPT ![k].pos = "done", ![k].seen = out_dirs]
    /\ UNCHANGED out_dirs

\* The page load is over: the plan number is taken from the file names
\* (none when no name holds one), the folder is renamed when allowed, and
\* the call goes on to its first click.
ResolveFolder(k, number) ==
    /\ dl_tasks[k].pos = "loading"
    /\ IF number # "" /\ RenameAllowed(number, dl_tasks[k].plan_dir, DirsAtCheck(k))
       THEN /\ out_dirs' = (out_dirs \ {dl_tasks[k].plan_dir}) \cup {number}
            /\ dl_tasks' = [dl_tasks EXCEPT ![k].pos = "clicking",
                                            ![k].plan_number = number,
                                            ![k].plan_dir = number,
                                            ![k].seen = out_dirs']
       ELSE /\ dl_tasks' = [dl_tasks EXCEPT ![k].pos = "clicking",
                                            ![k].plan_number = number,
                                            ![k].seen = out_dirs]
            /\ UNCHANGED out_dirs

\* The click loop is over and the call returns.
DownloadsOver(k) ==
    /\ dl_tasks[k].pos = "clicking"
    /\ dl_tasks' = [dl_tasks EXCEPT ![k].pos = "done", ![k].seen = out_dirs]
    /\ UNCHANGED out_dirs

NextShared ==
    \/ \E c \in SharedCases : DownloadAttachments(c) /\ OnlyShared
    \/ \E k \in DOMAIN dl_tasks : NoAttachments(k) /\ OnlyShared
    \/ \E k \in DOMAIN dl_tasks :
          \E number \in {"", PlanOf(dl_tasks[k].case_id)} :
              ResolveFolder(k, number) /\ OnlyShared
    \/ \E k \in DOMAIN dl_tasks : DownloadsOver(k) /\ OnlyShared

SpecShared == InitShared /\ [][NextShared]_vars

\* C29: whatever the interleaving of the download_attachments calls on the
\* event loop, a call that renames its folder renames it to a name no
\* folder has at that moment.
C29_RenameTargetsNoExistingFolder ==
    [][\A k \in DOMAIN dl_tasks :
          dl_tasks'[k].plan_dir # dl_tasks[k].plan_dir =>
              dl_tasks'[k].plan_dir \notin out_dirs]_vars

\* Two calls for different cases of the same plan were loading together;
\* the first to resolve renamed its folder, the other kept its case folder.
C29_Witness ==
    \E k, m \in DOMAIN dl_tasks :
        /\ dl_tasks[k].pos = "clicking" /\ dl_tasks[m].pos = "clicking"
        /\ dl_tasks[k].case_id # dl_tasks[m].case_id
        /\ dl_tasks[k].plan_number = dl_tasks[m].plan_number
        /\ dl_tasks[k].plan_number # ""
        /\ dl_tasks[k].plan_dir = dl_tasks[k].plan_number
        /\ dl_tasks[m].plan_dir = dl_tasks[m].case_id
        /\ dl_tasks[k].plan_number \in dl_tasks[m].seen
        /\ dl_tasks[k].plan_number \notin dl_tasks[k].seen \ {dl_tasks[k].plan_dir}

====
